---- MODULE Spec2Model ----
(***************************************************************************)
(* The tool-augmented conversation loop of the assistant bot:              *)
(*   GeminiService.get_gemini_response_with_tools  (src/gemini_service.py) *)
(*   GeminiService._call_gemini_api                (src/gemini_service.py) *)
(*   ToolManager.execute_tool                      (src/tool_manager.py)   *)
(*                                                                         *)
(* A text (Python str) is a sequence of string fragments: a literal is a   *)
(* one-fragment sequence, an f-string is the concatenation of its          *)
(* fragments and the empty str is << >>.  User-facing literals are         *)
(* rendered in English.  Python's None is modelled by the empty text where *)
(* the code only tests truthiness.                                         *)
(***************************************************************************)
EXTENDS Integers, Sequences, FiniteSets, TLC

VARIABLES
    pc,                       \* position of the engine coroutine
    chat_history,             \* argument of get_gemini_response_with_tools
    current_chat_history,     \* working copy of the history
    iteration,                \* index of the for loop of the engine
    response_from_gemini,     \* last value returned by _call_gemini_api
    function_call,            \* functionCall of the current iteration
    gemini_response_content,  \* result variable of the engine
    returned,                 \* value returned by the engine
    returns,                  \* number of times the engine returned
    escaped,                  \* an exception left the engine uncaught
    last_error,               \* exception handled by the engine's except
    outcomes,                 \* per backend call: how the call ended
    backend_calls,            \* calls of _call_gemini_api in this run
    tool_invocations,         \* calls of execute_tool in this run
    tool_result,              \* how the last execute_tool call ended
    attempt,                  \* index of the retry loop of _call_gemini_api
    http_requests,            \* HTTP requests issued by the current call
    sleeps,                   \* delays slept by the current call
    delay,                    \* delay being slept (pc = "sleep")
    attempt_errors,           \* errors of the failed attempts of the current call
    user_conversations,       \* ConversationManager.user_conversations
    now,                      \* the wall clock, in minutes
    last_op,                  \* the ConversationManager call made last
    request_tools,            \* "tools" of the payload of the current call
    tools_schema,             \* ToolManager._tools_schema
    handlers,                 \* the handler task of each Telegram message
    engine_owner,             \* the message whose engine run is followed
    cleanup_task,             \* ConversationManager.cleanup_task
    stop_pc                   \* position of stop_cleanup_task

\* state of one run of GeminiService
engine_vars ==
    <<pc, chat_history, current_chat_history, iteration,
      response_from_gemini, function_call, gemini_response_content,
      returned, returns, escaped, last_error, outcomes, backend_calls,
      tool_invocations, tool_result, attempt, http_requests, sleeps,
      delay, attempt_errors, request_tools>>

\* state of ConversationManager
store_vars == <<user_conversations, now, last_op>>

\* state of TelegramBotApp: ToolManager, the handler tasks, the cleanup task
app_vars == <<tools_schema, handlers, engine_owner, cleanup_task, stop_pc>>

vars == <<engine_vars, store_vars, app_vars>>

----------------------------------------------------------------------------
(* Configuration defaults, BotConfig. *)

max_tool_call_iterations == 5

gemini_max_retries == 3

gemini_base_delay == 1

----------------------------------------------------------------------------
(* Fixed user-facing messages of the engine. *)

MSG_NO_RESPONSE == <<"Sorry, could not get a response from the AI.">>

MSG_UNINTELLIGIBLE == <<"Sorry, the AI returned an unintelligible response.">>

MSG_INTERNAL_ERROR == <<"An internal error occurred while processing the AI request.">>

MSG_FALLBACK == <<"Sorry, I could not complete your request after several tool attempts.">>

MSG_NO_FINAL == <<"Sorry, could not get a final response from the AI.">>

FixedMessages ==
    {MSG_NO_RESPONSE, MSG_UNINTELLIGIBLE, MSG_INTERNAL_ERROR, MSG_FALLBACK,
     MSG_NO_FINAL}

NoneText == << >>

\* Python truthiness of a str or None
Truthy(t) == t # << >>

----------------------------------------------------------------------------
(* Exceptions: the class, the HTTP status (0 when the class has none) and  *)
(* str(e).                                                                 *)

Exc(type, status, desc) == [type |-> type, status |-> status, desc |-> desc]

NoExc == Exc("none", 0, << >>)

\* Failures of one HTTP attempt: raise_for_status() and response.json()
HttpFailures ==
    {Exc("ClientResponseError", 500, <<"500, message='Internal Server Error'">>),
     Exc("ClientResponseError", 429, <<"429, message='Too Many Requests'">>),
     Exc("ClientResponseError", 400, <<"400, message='Bad Request'">>),
     Exc("ClientError", 0, <<"Cannot connect to host">>),
     Exc("ClientResponseError", 200, <<"200, message='Attempt to decode JSON with unexpected mimetype'">>),
     Exc("JSONDecodeError", 0, <<"Expecting value: line 1 column 1 (char 0)">>),
     Exc("Exception", 0, <<"Session is closed">>)}

----------------------------------------------------------------------------
(* Tools.  A keyword-argument mapping is modelled by its set of keys and a *)
(* flag telling whether the JSON value of 'args' is a mapping at all.      *)

AvailableTools ==
    {"create_calendar_event", "list_calendar_events", "delete_calendar_event"}

\* parameters without default of each implementation
RequiredParams(tool_name) ==
    CASE tool_name = "create_calendar_event" -> {"summary", "start_time", "end_time"}
      [] tool_name = "list_calendar_events" -> {}
      [] tool_name = "delete_calendar_event" -> {"event_id"}

\* all parameters of each implementation
AllParams(tool_name) ==
    CASE tool_name = "create_calendar_event" ->
            {"summary", "start_time", "end_time", "description", "location"}
      [] tool_name = "list_calendar_events" ->
            {"max_results", "time_min", "time_max", "summary_keyword"}
      [] tool_name = "delete_calendar_event" -> {"event_id"}

\* texts a calendar operation returns (confirmation, listing, error text)
ToolResults ==
    {<<"Event successfully handled in the calendar.">>,
     <<"Could not fetch the events: ",
       "<HttpError 403 when requesting https://www.googleapis.com/calendar/v3/calendars/primary/events?alt=json returned Forbidden>">>}

ToolOutcome(raised, exc, value) ==
    [called |-> TRUE, raised |-> raised, exc |-> exc, value |-> value,
     logged |-> NoneText]

NoToolOutcome ==
    [called |-> FALSE, raised |-> FALSE, exc |-> NoExc, value |-> NoneText,
     logged |-> NoneText]

\* the number of characters of a result the log line of execute_tool shows
LOG_RESULT_CHARS == 100

\* the number of characters of a text
RECURSIVE CharLen(_)
CharLen(t) == IF t = << >> THEN 0 ELSE Len(Head(t)) + CharLen(Tail(t))

\* t[:n]: the first n characters of a text
RECURSIVE Slice(_, _)
Slice(t, n) ==
    IF t = << >> \/ n <= 0 THEN << >>
    ELSE IF Len(Head(t)) >= n THEN <<SubSeq(Head(t), 1, n)>>
    ELSE <<Head(t)>> \o Slice(Tail(t), n - Len(Head(t)))

\* mutation: the value returned is the text of the log line
ReturnedResult_AsLogged(result) == Slice(result, LOG_RESULT_CHARS)

\* logger.info(f"... {result[:100]}..."); return result
ReturnedResult(result) == result

----------------------------------------------------------------------------
(* ToolManager.execute_tool(self, tool_name, **kwargs), called by the      *)
(* engine as execute_tool(function_name, **function_args).                 *)

\* names of execute_tool's own parameters: a keyword of the same name makes
\* the call itself fail with TypeError (multiple values for the argument)
OwnParams == {"self", "tool_name"}

\* binding of **kwargs to an implementation's signature fails
BindFails(tool_name, kwargs) ==
    ~(RequiredParams(tool_name) \subseteq kwargs /\ kwargs \subseteq AllParams(tool_name))

ToolNotFoundText(tool_name) == <<"Error: tool '", tool_name, "' not found.">>

ToolErrorText(tool_name, e) ==
    <<"Error while executing tool '", tool_name, "': ">> \o e.desc

\* the awaited implementation: raises TypeError when the keywords do not fit
\* its signature, else returns impl_result
CallImplementation(tool_name, kwargs, impl_result) ==
    IF BindFails(tool_name, kwargs)
    THEN ToolOutcome(TRUE,
                     Exc("TypeError", 0, <<tool_name, "() got unexpected or missing arguments">>),
                     NoneText)
    ELSE ToolOutcome(FALSE, NoExc, impl_result)

execute_tool(tool_name, kwargs, impl_result) ==
    IF kwargs \cap OwnParams # {}
    THEN ToolOutcome(TRUE,
                     Exc("TypeError", 0, <<"execute_tool() got multiple values for argument">>),
                     NoneText)
    ELSE IF tool_name \in AvailableTools
    THEN LET r == CallImplementation(tool_name, kwargs, impl_result) IN
         IF r.raised
         THEN ToolOutcome(FALSE, NoExc, ToolErrorText(tool_name, r.exc))
         ELSE [ToolOutcome(FALSE, NoExc, ReturnedResult(r.value)) EXCEPT
                    !.logged = Slice(r.value, LOG_RESULT_CHARS)]
    ELSE ToolOutcome(FALSE, NoExc, ToolNotFoundText(tool_name))

----------------------------------------------------------------------------
(* Backend responses (the JSON body of generateContent).                   *)

\* part['functionCall']: present = the key holds a truthy value
FunctionCall(has_name, name, args_is_mapping, args) ==
    [present |-> TRUE, has_name |-> has_name, name |-> name,
     args_is_mapping |-> args_is_mapping, args |-> args]

NoFunctionCall ==
    [present |-> FALSE, has_name |-> FALSE, name |-> "",
     args_is_mapping |-> TRUE, args |-> {}]

Part(fc, text) == [functionCall |-> fc, text |-> text]

\* shape: "falsy" (None or {}), "ill_typed" (a truthy value whose examination
\* raises: a JSON array, a candidate that is no object, ...), "no_candidates",
\* "no_content", or "content" (candidates[0].content is truthy) with its parts;
\* later_candidates holds the parts of candidates[1:], one sequence each
Response(shape, parts) ==
    [shape |-> shape, parts |-> parts, later_candidates |-> << >>]

\* the response r with one more candidate after the first
WithLaterCandidate(r, parts) ==
    [r EXCEPT !.later_candidates = Append(@, parts)]

NoResponse == Response("none", << >>)

BackendTexts == {<<"Done, I've added Standup.">>, <<"You have no events today.">>}

FunctionCalls ==
    {FunctionCall(TRUE, "list_calendar_events", TRUE, {}),
     FunctionCall(TRUE, "list_calendar_events", TRUE, {"bogus"}),
     FunctionCall(TRUE, "delete_calendar_event", TRUE, {}),
     FunctionCall(TRUE, "no_such_tool", TRUE, {}),
     FunctionCall(TRUE, "list_calendar_events", TRUE, {"tool_name"}),
     FunctionCall(TRUE, "no_such_tool", TRUE, {"tool_name"}),
     FunctionCall(FALSE, "", TRUE, {}),
     FunctionCall(TRUE, "list_calendar_events", FALSE, {})}

Responses ==
    {Response(s, << >>) :
        s \in {"falsy", "ill_typed", "no_candidates", "no_content", "content"}}
    \cup {Response("content", <<Part(NoFunctionCall, t)>>) :
            t \in {NoneText} \cup BackendTexts}
    \cup {Response("content", <<Part(fc, NoneText)>>) : fc \in FunctionCalls}
    \cup {Response("content",
                   <<Part(FunctionCall(TRUE, "list_calendar_events", TRUE, {}),
                          <<"Done, I've added Standup.">>)>>),
          Response("content",
                   <<Part(NoFunctionCall, <<"Done, I've added Standup.">>),
                     Part(NoFunctionCall, <<"You have no events today.">>)>>),
          Response("content",
                   <<Part(NoFunctionCall, NoneText),
                     Part(NoFunctionCall, <<"You have no events today.">>)>>),
          Response("content",
                   <<Part(NoFunctionCall, NoneText),
                     Part(FunctionCall(TRUE, "no_such_tool", TRUE, {}), NoneText)>>),
          WithLaterCandidate(Response("no_content", << >>),
                             <<Part(NoFunctionCall, <<"You have no events today.">>)>>)}

\* mutation: the emptiness check is missing
IsEmptyResponse_Never(r) == FALSE

\* `not response_from_gemini`
IsEmptyResponse(r) == r.shape = "falsy"

\* the .get / [0] chain raises (AttributeError, TypeError, KeyError)
ExaminationRaises(r) == r.shape = "ill_typed"

\* candidates, candidates[0].content and content.parts are all truthy
HasFirstPart(r) == r.shape = "content" /\ r.parts # << >>

\* mutation: the text test comes first, a part with a text is no tool call
IsFunctionCallResponse_TextFirst(r) ==
    HasFirstPart(r) /\ r.parts[1].functionCall.present /\ ~Truthy(r.parts[1].text)

\* the condition of the `if`: parts[0].get('functionCall') is truthy
IsFunctionCallResponse(r) == HasFirstPart(r) /\ r.parts[1].functionCall.present

\* the condition of the `elif`: parts[0].get('text') is truthy
IsTextResponse(r) == HasFirstPart(r) /\ Truthy(r.parts[1].text)

----------------------------------------------------------------------------
(* History entries.                                                        *)

TextMessage(role, text) ==
    [role |-> role, part |-> "text", function_call |-> NoFunctionCall,
     name |-> "", content |-> text]

\* {'role': 'model', 'parts': [{'function_call': function_call}]}
FunctionCallMessage(fc) ==
    [role |-> "model", part |-> "function_call", function_call |-> fc,
     name |-> "", content |-> NoneText]

\* {'role': 'function', 'parts': [{'function_response': {'name': ..,
\*   'response': {'content': tool_output}}}]}
FunctionResponseMessage(function_name, tool_output) ==
    [role |-> "function", part |-> "function_response",
     function_call |-> NoFunctionCall, name |-> function_name,
     content |-> tool_output]

SystemPrompt == TextMessage("user", <<"Current date and time (UTC): ", "T0", ". ", "You are a friendly assistant.">>)

SystemPromptResponse == TextMessage("model", <<"Hello! I am ready to chat.">>)

\* number of earlier turns (user message and model reply) in a history
MaxPriorTurns == 1

\* k earlier turns of the conversation
RECURSIVE PriorTurns(_)
PriorTurns(k) ==
    IF k = 0 THEN << >>
    ELSE PriorTurns(k - 1) \o <<TextMessage("user", <<"hello">>),
                                 TextMessage("model", <<"You have no events today.">>)>>

\* histories handle_message passes to the engine: the seed pair, earlier
\* turns, and the user's message last
StartHistories ==
    {<<SystemPrompt, SystemPromptResponse>> \o PriorTurns(k)
        \o <<TextMessage("user", <<"create an event called Standup">>)>> :
     k \in 0..MaxPriorTurns}

----------------------------------------------------------------------------
(* ConversationManager: the histories of the users, held in memory.  Time  *)
(* is counted in minutes.                                                  *)

\* user ids (message.from_user.id)
Users == {"u1", "u2"}

conversation_lifetime_minutes == 30

\* the clock is followed up to this minute
MaxTime == 47

\* update_history is followed up to this length of a stored history
MaxStoredLen == 4

\* the steps of the clock: half a lifetime, and a minute more
ClockSteps ==
    {conversation_lifetime_minutes \div 2, conversation_lifetime_minutes \div 2 + 1}

\* prompt_with_time: both renderings of the clock, then the base text
_generate_system_prompt(t) ==
    TextMessage("user", <<"Current date and time (UTC): ", ToString(t), ". ",
                          "Current date and time (Moscow Time): ",
                          ToString(t + 180), ". ",
                          "You are a friendly assistant.">>)

\* mutation: the seed is the system prompt alone
_get_initial_history_PromptOnly(t) == <<_generate_system_prompt(t)>>

\* [self._generate_system_prompt(), self.system_prompt_response]
_get_initial_history(t) == <<_generate_system_prompt(t), SystemPromptResponse>>

\* a value of user_conversations[user_id]
Conversation(history, last_active) ==
    [present |-> TRUE, history |-> history, last_active |-> last_active]

\* user_id not in user_conversations
NoConversation == [present |-> FALSE, history |-> << >>, last_active |-> 0]

\* mutation: a conversation idle for exactly the lifetime is expired too
IsExpired_Inclusive(conversation, current_time) ==
    current_time - conversation.last_active >= conversation_lifetime_minutes

\* current_time - last_active_time > timedelta(minutes=conversation_lifetime_minutes)
IsExpired(conversation, current_time) ==
    current_time - conversation.last_active > conversation_lifetime_minutes

\* mutation: the live branch builds the seed again
RefreshSystemPrompt_Reseed(history, current_time) ==
    _get_initial_history(current_time)

\* history[0] = self._generate_system_prompt()
RefreshSystemPrompt(history, current_time) ==
    [history EXCEPT ![1] = _generate_system_prompt(current_time)]

\* mutation: last_active is set only where the entry is created
get_history_CreateOnlyTouch(conversations, user_id, current_time) ==
    IF ~conversations[user_id].present
    THEN [conversations EXCEPT
            ![user_id] = Conversation(_get_initial_history(current_time), current_time)]
    ELSE IF IsExpired(conversations[user_id], current_time)
    THEN [conversations EXCEPT
            ![user_id].history = _get_initial_history(current_time)]
    ELSE [conversations EXCEPT
            ![user_id].history = RefreshSystemPrompt(@, current_time)]

\* user_conversations after get_history(user_id) at current_time
get_history(conversations, user_id, current_time) ==
    LET branches ==
            IF ~conversations[user_id].present
            THEN [conversations EXCEPT
                    ![user_id] = Conversation(_get_initial_history(current_time),
                                              current_time)]
            ELSE IF IsExpired(conversations[user_id], current_time)
            THEN [conversations EXCEPT
                    ![user_id].history = _get_initial_history(current_time)]
            ELSE [conversations EXCEPT
                    ![user_id].history = RefreshSystemPrompt(@, current_time)]
    IN [branches EXCEPT ![user_id].last_active = current_time]

\* mutation: the message is put in front of the earlier turns, right after
\* the seed pair
update_history_Front(conversations, user_id, message, current_time) ==
    IF conversations[user_id].present
    THEN [conversations EXCEPT
            ![user_id] = Conversation(SubSeq(@.history, 1, 2) \o <<message>>
                                        \o SubSeq(@.history, 3, Len(@.history)),
                                      current_time)]
    ELSE [conversations EXCEPT
            ![user_id] = Conversation(_get_initial_history(current_time) \o <<message>>,
                                      current_time)]

\* mutation: a message for an absent user starts the history
update_history_NoSeed(conversations, user_id, message, current_time) ==
    IF conversations[user_id].present
    THEN [conversations EXCEPT
            ![user_id] = Conversation(Append(@.history, message), current_time)]
    ELSE [conversations EXCEPT
            ![user_id] = Conversation(<<message>>, current_time)]

\* user_conversations after update_history(user_id, message) at current_time
update_history(conversations, user_id, message, current_time) ==
    IF conversations[user_id].present
    THEN [conversations EXCEPT
            ![user_id] = Conversation(Append(@.history, message), current_time)]
    ELSE [conversations EXCEPT
            ![user_id] = Conversation(_get_initial_history(current_time) \o <<message>>,
                                      current_time)]

\* mutation: only an existing conversation is reset
reset_history_IfPresent(conversations, user_id, current_time) ==
    IF conversations[user_id].present
    THEN [conversations EXCEPT
            ![user_id] = Conversation(_get_initial_history(current_time), current_time)]
    ELSE conversations

\* user_conversations after reset_history(user_id) at current_time
reset_history(conversations, user_id, current_time) ==
    [conversations EXCEPT
        ![user_id] = Conversation(_get_initial_history(current_time), current_time)]

\* mutation: every conversation of the snapshot is selected
users_to_remove_All(conversations, current_time) ==
    {user_id \in Users : conversations[user_id].present}

\* the users one pass of the cleanup loop selects from its snapshot
users_to_remove(conversations, current_time) ==
    {user_id \in Users :
        /\ conversations[user_id].present
        /\ IsExpired(conversations[user_id], current_time)}

\* mutation: a pass that finds an expired session empties the mapping
cleanup_old_conversations_Clear(conversations, current_time) ==
    [user_id \in Users |->
        IF users_to_remove(conversations, current_time) # {}
        THEN NoConversation
        ELSE conversations[user_id]]

\* user_conversations after one pass of the cleanup loop at current_time
cleanup_old_conversations(conversations, current_time) ==
    [user_id \in Users |->
        IF user_id \in users_to_remove(conversations, current_time)
        THEN NoConversation
        ELSE conversations[user_id]]

\* messages handle_message stores: the user's text and the model's reply
StoredMessages ==
    {TextMessage("user", <<"hello">>),
     TextMessage("model", <<"You have no events today.">>)}

\* the ConversationManager call made last: its name, its user, the user's
\* entry before the call, the messages passed (update_history), the list
\* returned (get_history) and the users deleted (cleanup loop)
Op(op, user_id, before, messages, result, removed) ==
    [op |-> op, user_id |-> user_id, before |-> before, messages |-> messages,
     result |-> result, removed |-> removed]

\* ConversationManager.__init__
StoreInit ==
    /\ user_conversations = [user_id \in Users |-> NoConversation]
    /\ now = 0
    /\ last_op = Op("init", "", NoConversation, << >>, << >>, {})

----------------------------------------------------------------------------
(* GeminiService._call_gemini_api: the retry policy.                       *)

\* mutation: every error status is retried
IsRetryableStatus_AnyError(status) == status >= 400

\* e.status >= 500 or e.status == 429
IsRetryableStatus(status) == status >= 500 \/ status = 429

\* mutation: the last attempt is retried too
HasAttemptLeft_OffByOne(a) == a < gemini_max_retries

\* attempt < self.config.gemini_max_retries - 1
HasAttemptLeft(a) == a < gemini_max_retries - 1

\* mutation: the delay does not grow
BackoffDelay_Constant(a) == gemini_base_delay

\* delay = gemini_base_delay * (2 ** attempt)
BackoffDelay(a) == gemini_base_delay * 2^a

\* mutation: a retryable failure sleeps on the last attempt too, and the
\* loop runs out
ShouldRetry_Swallow(e, a) ==
    CASE e.type = "ClientResponseError" -> IsRetryableStatus(e.status)
      [] e.type = "ClientError" -> TRUE
      [] e.type = "JSONDecodeError" -> FALSE
      [] OTHER -> FALSE

\* the except clauses in their order: does the failure of attempt a lead to
\* a sleep and another attempt (TRUE) or is it raised to the caller (FALSE)
ShouldRetry(e, a) ==
    CASE e.type = "ClientResponseError" -> IsRetryableStatus(e.status) /\ HasAttemptLeft(a)
      [] e.type = "ClientError" -> HasAttemptLeft(a)
      [] e.type = "JSONDecodeError" -> FALSE
      [] OTHER -> FALSE

----------------------------------------------------------------------------
(* GeminiService.get_gemini_response_with_tools: the engine.               *)

\* mutation: the loop runs once more than the budget
InRange_OneMore(i) == i <= max_tool_call_iterations

\* for iteration in range(max_tool_call_iterations)
InRange(i) == i < max_tool_call_iterations

\* mutation: `except aiohttp.ClientError`
CaughtByEngine_ClientOnly(e) == e.type \in {"ClientResponseError", "ClientError"}

\* `except Exception` catches every exception class of the model
CaughtByEngine(e) ==
    e.type \in {"ClientResponseError", "ClientError", "JSONDecodeError",
                "Exception", "TypeError", "KeyError", "AttributeError"}

\* return gemini_response_content or "<no final response>"
FinalReturn(content) == IF Truthy(content) THEN content ELSE MSG_NO_FINAL

\* how the engine classifies a response (recorded in outcomes)
Classify(r) ==
    IF IsEmptyResponse(r) THEN "empty"
    ELSE IF ExaminationRaises(r) THEN "ill_typed"
    ELSE IF IsFunctionCallResponse(r)
    THEN (IF r.parts[1].functionCall.has_name /\ r.parts[1].functionCall.args_is_mapping
          THEN "tool_call" ELSE "tool_call_malformed")
    ELSE IF IsTextResponse(r) THEN "text"
    ELSE "malformed"

\* mutation: the last part is read instead of the first
ReplyText_LastPart(r) == r.parts[Len(r.parts)].text

\* response['candidates'][0]['content']['parts'][0]['text']
ReplyText(r) == r.parts[1].text

\* gemini_response_content = content; break; return
Finish(content) ==
    /\ pc' = "done"
    /\ gemini_response_content' = content
    /\ returned' = FinalReturn(content)
    /\ returns' = returns + 1

\* mutation: the except clause lets the loop go on instead of breaking
EngineExcept_Continue(e) ==
    /\ last_error' = e
    /\ gemini_response_content' = MSG_INTERNAL_ERROR
    /\ pc' = "loop"
    /\ UNCHANGED <<returned, returns, escaped>>

\* an exception e raised inside the try block of the loop body
EngineExcept(e) ==
    /\ last_error' = e
    /\ IF CaughtByEngine(e)
       THEN Finish(MSG_INTERNAL_ERROR) /\ escaped' = escaped
       ELSE /\ pc' = "done"
            /\ escaped' = TRUE
            /\ UNCHANGED <<gemini_response_content, returned, returns>>

\* the loop body after _call_gemini_api returned r, up to the call of
\* execute_tool
OnResponse(r) ==
    /\ response_from_gemini' = r
    /\ outcomes' = Append(outcomes, Classify(r))
    /\ IF IsEmptyResponse(r)
       THEN /\ Finish(MSG_NO_RESPONSE)
            /\ UNCHANGED <<current_chat_history, function_call, escaped, last_error>>
       ELSE IF ExaminationRaises(r)
       THEN /\ EngineExcept(Exc("AttributeError", 0, <<"object has no attribute 'get'">>))
            /\ UNCHANGED <<current_chat_history, function_call>>
       ELSE IF IsFunctionCallResponse(r)
       THEN LET fc == r.parts[1].functionCall IN
            /\ function_call' = fc
            /\ IF ~fc.has_name
               THEN /\ EngineExcept(Exc("KeyError", 0, <<"'name'">>))
                    /\ UNCHANGED current_chat_history
               ELSE /\ current_chat_history' =
                            Append(current_chat_history, FunctionCallMessage(fc))
                    /\ pc' = "tool"
                    /\ UNCHANGED <<gemini_response_content, returned, returns,
                                   escaped, last_error>>
       ELSE IF IsTextResponse(r)
       THEN /\ Finish(ReplyText(r))
            /\ UNCHANGED <<current_chat_history, function_call, escaped, last_error>>
       ELSE /\ Finish(MSG_UNINTELLIGIBLE)
            /\ UNCHANGED <<current_chat_history, function_call, escaped, last_error>>

\* mutation: the function_response is not appended
AppendToolResult_Dropped(history, function_name, tool_output) == history

\* the result of execute_tool appended as function_response
AppendToolResult(history, function_name, tool_output) ==
    Append(history, FunctionResponseMessage(function_name, tool_output))

----------------------------------------------------------------------------
(* ToolManager: the schema handed to the backend.                          *)

\* a function declaration of _tools_schema: its name and required parameters
Declaration(name, required) == [name |-> name, required |-> required]

\* self._tools_schema as __init__ builds it
ToolsSchema ==
    <<Declaration("create_calendar_event", {"summary", "start_time", "end_time"}),
      Declaration("list_calendar_events", {}),
      Declaration("delete_calendar_event", {"event_id"})>>

\* mutation: only the declarations with required parameters are returned
get_tools_schema_Filtered(schema) ==
    SelectSeq(schema, LAMBDA declaration : declaration.required # {})

\* return self._tools_schema
get_tools_schema(schema) == schema

----------------------------------------------------------------------------
(* TelegramBotApp: the handlers of the Telegram messages.                  *)

\* the Telegram messages followed, each handled by a task of its own
Messages == {"m1", "m2"}

\* message.text: none or empty, the two commands, a text
MessageTexts == {<< >>, <<"/start">>, <<"/reset">>, <<"hello">>}

MSG_WELCOME ==
    <<"Hi! I am an AI bot. The conversation history is kept for ", "30",
      " minutes. To start a new conversation use /reset.">>

MSG_RESET_DONE == <<"Conversation reset. You can start a new one.">>

MSG_RESET_NOTICE ==
    <<"The conversation was reset due to inactivity (more than ", "30",
      " minutes).">>

\* mutation: the catch-all handler is registered first
RegisteredHandlers_CatchAllFirst ==
    <<[handler |-> "handle_message", filter |-> "truthy", text |-> << >>],
      [handler |-> "send_welcome", filter |-> "equals", text |-> <<"/start">>],
      [handler |-> "reset_conversation", filter |-> "equals", text |-> <<"/reset">>]>>

\* register_handlers: the handlers and their filters in registration order
RegisteredHandlers ==
    <<[handler |-> "send_welcome", filter |-> "equals", text |-> <<"/start">>],
      [handler |-> "reset_conversation", filter |-> "equals", text |-> <<"/reset">>],
      [handler |-> "handle_message", filter |-> "truthy", text |-> << >>]>>

\* F.text == '...' and F.text
FilterMatches(registration, text) ==
    IF registration.filter = "equals" THEN text = registration.text
    ELSE Truthy(text)

\* the dispatcher calls the first registered handler whose filter matches
Route(text) ==
    LET matching == {i \in 1..Len(RegisteredHandlers) :
                        FilterMatches(RegisteredHandlers[i], text)}
    IN IF matching = {} THEN "none"
       ELSE RegisteredHandlers[CHOOSE i \in matching :
                                  \A j \in matching : i <= j].handler

\* something sent to the chat of a message
Outbound(kind, text) == [kind |-> kind, text |-> text]

\* the task handling one message: its position, the message, the locals of
\* the handler, what it has sent and what it has passed to update_history
Handler(position, handler, user_id, text) ==
    [pc |-> position, handler |-> handler, user_id |-> user_id, text |-> text,
     reset_notified |-> FALSE, engine_input |-> << >>,
     gemini_response_content |-> NoneText, sent |-> << >>, stored |-> << >>]

\* a message that has not arrived
NoHandler == Handler("new", "none", "", << >>)

\* the loop appends to current_chat_history; mutation: current_chat_history
\* is the stored list itself
StoreAfterAppend_Aliased(conversations, user_id, working) ==
    IF user_id \in Users /\ conversations[user_id].present
    THEN [conversations EXCEPT ![user_id].history = working]
    ELSE conversations

\* the loop appends to current_chat_history, which is list(chat_history), a
\* copy: the stored list stays as it is
StoreAfterAppend(conversations, user_id, working) == conversations

\* the user whose message the engine run belongs to
EngineUser ==
    IF engine_owner \in Messages THEN handlers[engine_owner].user_id ELSE ""

\* what a step of the engine leaves of the rest of the application
EngineFrame ==
    /\ user_conversations' =
            StoreAfterAppend(user_conversations, EngineUser, current_chat_history')
    /\ UNCHANGED <<now, last_op>>
    /\ UNCHANGED app_vars

\* the task of the cleanup loop: none, sleeping or done, the users selected
\* by the pass under way, and a cancellation not yet delivered; alive counts
\* the tasks of the loop that are not done, created the tasks made so far
Task(state, must_cancel) ==
    [state |-> state, users_to_remove |-> {}, must_cancel |-> must_cancel,
     alive |-> IF state = "sleeping" THEN 1 ELSE 0,
     created |-> IF state = "none" THEN 0 ELSE 1]

\* TelegramBotApp.__init__
AppInit ==
    /\ tools_schema = ToolsSchema
    /\ handlers = [m \in Messages |-> NoHandler]
    /\ engine_owner = ""
    /\ cleanup_task = Task("none", FALSE)
    /\ stop_pc = "idle"

Init ==
    /\ pc = "loop"
    /\ chat_history \in StartHistories
    /\ current_chat_history = chat_history
    /\ iteration = 0
    /\ response_from_gemini = NoResponse
    /\ function_call = NoFunctionCall
    /\ gemini_response_content = NoneText
    /\ returned = NoneText
    /\ returns = 0
    /\ escaped = FALSE
    /\ last_error = NoExc
    /\ outcomes = << >>
    /\ backend_calls = 0
    /\ tool_invocations = 0
    /\ tool_result = NoToolOutcome
    /\ attempt = 0
    /\ http_requests = 0
    /\ sleeps = << >>
    /\ delay = 0
    /\ attempt_errors = << >>
    /\ request_tools = << >>
    /\ StoreInit
    /\ AppInit

\* loop header, an iteration is left: await self._call_gemini_api(...)
CallBackend ==
    /\ pc = "loop"
    /\ InRange(iteration)
    /\ pc' = "api"
    /\ backend_calls' = backend_calls + 1
    /\ attempt' = 0
    /\ http_requests' = 0
    /\ sleeps' = << >>
    /\ attempt_errors' = << >>
    /\ UNCHANGED <<chat_history, current_chat_history, iteration,
                   response_from_gemini, function_call, gemini_response_content,
                   returned, returns, escaped, last_error, outcomes,
                   tool_invocations, tool_result, delay>>
    /\ request_tools' = get_tools_schema(tools_schema)
    /\ EngineFrame

\* loop header, the range is exhausted: the else clause of the for loop
BudgetExhausted ==
    /\ pc = "loop"
    /\ ~InRange(iteration)
    /\ Finish(MSG_FALLBACK)
    /\ UNCHANGED <<chat_history, current_chat_history, iteration,
                   response_from_gemini, function_call, escaped, last_error,
                   outcomes, backend_calls, tool_invocations, tool_result,
                   attempt, http_requests, sleeps, delay, attempt_errors>>
    /\ UNCHANGED request_tools
    /\ EngineFrame

\* one HTTP attempt succeeds: _call_gemini_api returns response.json() and
\* the engine examines it
HttpSuccess(r) ==
    /\ pc = "api"
    /\ attempt < gemini_max_retries
    /\ http_requests' = http_requests + 1
    /\ OnResponse(r)
    /\ UNCHANGED <<chat_history, iteration, backend_calls, tool_invocations,
                   tool_result, attempt, sleeps, delay, attempt_errors>>
    /\ UNCHANGED request_tools
    /\ EngineFrame

\* one HTTP attempt fails and is retried: await asyncio.sleep(delay)
HttpFailureRetry(e) ==
    /\ pc = "api"
    /\ attempt < gemini_max_retries
    /\ ShouldRetry(e, attempt)
    /\ http_requests' = http_requests + 1
    /\ delay' = BackoffDelay(attempt)
    /\ pc' = "sleep"
    /\ attempt_errors' = Append(attempt_errors, e)
    /\ UNCHANGED <<chat_history, current_chat_history, iteration,
                   response_from_gemini, function_call, gemini_response_content,
                   returned, returns, escaped, last_error, outcomes,
                   backend_calls, tool_invocations, tool_result, attempt, sleeps>>
    /\ UNCHANGED request_tools
    /\ EngineFrame

\* mutation: the retry is a recursive call of _call_gemini_api, which
\* starts again at attempt 0
Wake_Recursive ==
    /\ pc = "sleep"
    /\ pc' = "api"
    /\ attempt' = 0
    /\ http_requests' = 0
    /\ sleeps' = << >>
    /\ delay' = 0
    /\ attempt_errors' = << >>
    /\ UNCHANGED <<chat_history, current_chat_history, iteration,
                   response_from_gemini, function_call, gemini_response_content,
                   returned, returns, escaped, last_error, outcomes,
                   backend_calls, tool_invocations, tool_result>>
    /\ UNCHANGED request_tools
    /\ EngineFrame

\* the sleep is over: next attempt of the retry loop; a retry loop that runs
\* out of its range returns None to the engine
Wake ==
    /\ pc = "sleep"
    /\ sleeps' = Append(sleeps, delay)
    /\ delay' = 0
    /\ attempt' = attempt + 1
    /\ IF attempt + 1 < gemini_max_retries
       THEN /\ pc' = "api"
            /\ UNCHANGED <<current_chat_history, response_from_gemini,
                           function_call, gemini_response_content, returned,
                           returns, escaped, last_error, outcomes>>
       ELSE OnResponse(Response("falsy", << >>))
    /\ UNCHANGED <<chat_history, iteration, backend_calls, tool_invocations,
                   tool_result, http_requests, attempt_errors>>
    /\ UNCHANGED request_tools
    /\ EngineFrame

\* one HTTP attempt fails and the error is raised to the engine, whose
\* except clause handles it
HttpFailureRaise(e) ==
    /\ pc = "api"
    /\ attempt < gemini_max_retries
    /\ ~ShouldRetry(e, attempt)
    /\ http_requests' = http_requests + 1
    /\ outcomes' = Append(outcomes, "raised")
    /\ EngineExcept(e)
    /\ attempt_errors' = Append(attempt_errors, e)
    /\ UNCHANGED <<chat_history, current_chat_history, iteration,
                   response_from_gemini, function_call, backend_calls,
                   tool_invocations, tool_result, attempt, sleeps, delay>>
    /\ UNCHANGED request_tools
    /\ EngineFrame

\* tool_output = await execute_tool(function_name, **function_args), then
\* the function_response is appended and the loop continues
ExecuteTool(impl_result) ==
    /\ pc = "tool"
    /\ IF ~function_call.args_is_mapping
       THEN /\ EngineExcept(Exc("TypeError", 0, <<"argument after ** must be a mapping">>))
            /\ UNCHANGED <<current_chat_history, iteration, tool_invocations,
                           tool_result>>
       ELSE LET out == execute_tool(function_call.name, function_call.args, impl_result) IN
            /\ tool_invocations' = tool_invocations + 1
            /\ tool_result' = out
            /\ IF out.raised
               THEN /\ EngineExcept(out.exc)
                    /\ UNCHANGED <<current_chat_history, iteration>>
               ELSE /\ current_chat_history' =
                            AppendToolResult(current_chat_history,
                                             function_call.name, out.value)
                    /\ iteration' = iteration + 1
                    /\ pc' = "loop"
                    /\ UNCHANGED <<gemini_response_content, returned, returns,
                                   escaped, last_error>>
    /\ UNCHANGED <<chat_history, response_from_gemini, function_call, outcomes,
                   backend_calls, attempt, http_requests, sleeps, delay,
                   attempt_errors>>
    /\ UNCHANGED request_tools
    /\ EngineFrame

\* handle_message, send_welcome: self.conversation_manager.get_history(user_id)
GetHistory(user_id) ==
    /\ user_conversations' = get_history(user_conversations, user_id, now)
    /\ last_op' = Op("get_history", user_id, user_conversations[user_id], << >>,
                     user_conversations'[user_id].history, {})
    /\ UNCHANGED now
    /\ UNCHANGED engine_vars
    /\ UNCHANGED app_vars

\* handle_message: self.conversation_manager.update_history(user_id, message)
UpdateHistory(user_id, message) ==
    /\ Len(user_conversations[user_id].history) < MaxStoredLen
    /\ user_conversations' = update_history(user_conversations, user_id, message, now)
    /\ last_op' = Op("update_history", user_id, user_conversations[user_id],
                     <<message>>, << >>, {})
    /\ UNCHANGED now
    /\ UNCHANGED engine_vars
    /\ UNCHANGED app_vars

\* send_welcome, reset_conversation: self.conversation_manager.reset_history(user_id)
ResetHistory(user_id) ==
    /\ user_conversations' = reset_history(user_conversations, user_id, now)
    /\ last_op' = Op("reset_history", user_id, user_conversations[user_id],
                     << >>, << >>, {})
    /\ UNCHANGED now
    /\ UNCHANGED engine_vars
    /\ UNCHANGED app_vars

\* one pass of _cleanup_old_conversations_loop after its sleep: snapshot,
\* selection and deletion run without an await between them
\* the task after `del self.user_conversations[user_id]` for the selected
\* users: a key that is absent raises KeyError, which ends the task
AfterDeletion(task, selected, conversations) ==
    IF \E user_id \in selected : ~conversations[user_id].present
    THEN [task EXCEPT !.state = "failed", !.users_to_remove = {},
                      !.alive = @ - 1]
    ELSE [task EXCEPT !.users_to_remove = {}]

\* mutation: the loop suspends between the selection and the deletion
Cleanup_Suspending ==
    /\ \/ /\ cleanup_task.users_to_remove = {}
          /\ cleanup_task' =
                [cleanup_task EXCEPT
                    !.users_to_remove = users_to_remove(user_conversations, now)]
          /\ UNCHANGED <<user_conversations, last_op>>
       \/ /\ cleanup_task.users_to_remove # {}
          /\ user_conversations' =
                [user_id \in Users |->
                    IF user_id \in cleanup_task.users_to_remove
                    THEN NoConversation
                    ELSE user_conversations[user_id]]
          /\ last_op' = Op("cleanup", "", NoConversation, << >>, << >>,
                           cleanup_task.users_to_remove)
          /\ cleanup_task' = AfterDeletion(cleanup_task, cleanup_task.users_to_remove,
                                           user_conversations)
    /\ UNCHANGED now
    /\ UNCHANGED engine_vars
    /\ UNCHANGED <<tools_schema, handlers, engine_owner, stop_pc>>

\* one pass of the cleanup loop, from the end of the sleep to the next
\* sleep: snapshot, selection and deletion
Cleanup ==
    /\ user_conversations' = cleanup_old_conversations(user_conversations, now)
    /\ last_op' = Op("cleanup", "", NoConversation, << >>, << >>,
                     users_to_remove(user_conversations, now))
    /\ cleanup_task' = AfterDeletion(cleanup_task,
                                     users_to_remove(user_conversations, now),
                                     user_conversations)
    /\ UNCHANGED now
    /\ UNCHANGED engine_vars
    /\ UNCHANGED <<tools_schema, handlers, engine_owner, stop_pc>>

\* the clock advances by half a lifetime or a minute more
Tick(minutes) ==
    /\ now + minutes <= MaxTime
    /\ now' = now + minutes
    /\ last_op' = Op("tick", "", NoConversation, << >>, << >>, {})
    /\ UNCHANGED user_conversations
    /\ UNCHANGED engine_vars
    /\ UNCHANGED app_vars

\* the handler task at message m, after one more thing sent
Sending(handler, kind, text) ==
    [handler EXCEPT !.sent = Append(@, Outbound(kind, text))]

\* mutation: the typing indicator is not sent before the conversation loop
AwaitTyping_Silent(handler) ==
    [handler EXCEPT !.pc = "typing",
                    !.stored = Append(@, TextMessage("user", handler.text))]

\* handle_message from update_history(user message) to the await of
\* send_chat_action
AwaitTyping(handler) ==
    [Sending(handler, "chat_action", <<"typing">>) EXCEPT
        !.pc = "typing",
        !.stored = Append(@, TextMessage("user", handler.text))]

\* send_welcome: self.conversation_manager.get_history(user_id)
send_welcome(conversations, user_id, current_time) ==
    get_history(conversations, user_id, current_time)

\* mutation: the notice is sent for a session that get_history re-seeded,
\* never for a history that merely has length 2
NeedsResetNotice_OnExpiryOnly(before, history, reset_notified) ==
    before.present /\ IsExpired(before, now) /\ ~reset_notified

\* mutation: the length of the history is not looked at
NeedsResetNotice_AnyLength(before, history, reset_notified) ==
    Len(history) >= 2 /\ ~reset_notified

\* len(chat_history) == 2 and not getattr(message, '_reset_notified', False)
NeedsResetNotice(before, history, reset_notified) ==
    Len(history) = 2 /\ ~reset_notified

\* a message arrives and the dispatcher starts its handler, which runs to
\* its first await (or to its end)
Dispatch(m, user_id, text) ==
    /\ handlers[m].pc = "new"
    /\ stop_pc = "idle"
    /\ LET handler == Route(text)
           arrived == Handler("done", handler, user_id, text)
       IN CASE handler = "send_welcome" ->
                /\ user_conversations' = send_welcome(user_conversations, user_id, now)
                /\ last_op' = Op("get_history", user_id, user_conversations[user_id],
                                 << >>, user_conversations'[user_id].history, {})
                /\ handlers' = [handlers EXCEPT
                                    ![m] = Sending(arrived, "reply", MSG_WELCOME)]
            [] handler = "reset_conversation" ->
                /\ user_conversations' = reset_history(user_conversations, user_id, now)
                /\ last_op' = Op("reset_history", user_id, user_conversations[user_id],
                                 << >>, << >>, {})
                /\ handlers' = [handlers EXCEPT
                                    ![m] = Sending(arrived, "reply", MSG_RESET_DONE)]
            [] handler = "handle_message" /\ ~Truthy(text) ->
                /\ handlers' = [handlers EXCEPT ![m] = arrived]
                /\ UNCHANGED <<user_conversations, last_op>>
            [] handler = "handle_message" /\ Truthy(text) ->
                LET fetched == get_history(user_conversations, user_id, now)
                    chat_history_1 == fetched[user_id].history
                IN IF NeedsResetNotice(user_conversations[user_id], chat_history_1, FALSE)
                   THEN /\ user_conversations' = fetched
                        /\ last_op' = Op("get_history", user_id,
                                         user_conversations[user_id], << >>,
                                         chat_history_1, {})
                        /\ handlers' = [handlers EXCEPT
                                ![m] = [Sending(arrived, "reply", MSG_RESET_NOTICE)
                                            EXCEPT !.pc = "notice"]]
                   ELSE /\ user_conversations' =
                                update_history(fetched, user_id,
                                               TextMessage("user", text), now)
                        /\ last_op' = Op("update_history", user_id, fetched[user_id],
                                         <<TextMessage("user", text)>>, << >>, {})
                        /\ handlers' = [handlers EXCEPT ![m] = AwaitTyping(arrived)]
            [] OTHER ->
                /\ handlers' = [handlers EXCEPT ![m] = arrived]
                /\ UNCHANGED <<user_conversations, last_op>>
    /\ UNCHANGED <<now, tools_schema, engine_owner, cleanup_task, stop_pc>>
    /\ UNCHANGED engine_vars

\* the reply with the notice returns: the flag is set on the message, the
\* user's message is stored and the typing indicator sent
NoticeReplied(m) ==
    /\ handlers[m].pc = "notice"
    /\ LET handler == handlers[m]
           message == TextMessage("user", handler.text)
       IN /\ user_conversations' =
                update_history(user_conversations, handler.user_id, message, now)
          /\ last_op' = Op("update_history", handler.user_id,
                           user_conversations[handler.user_id], <<message>>, << >>, {})
          /\ handlers' = [handlers EXCEPT
                ![m] = AwaitTyping([handler EXCEPT !.reset_notified = TRUE])]
    /\ UNCHANGED <<now, tools_schema, engine_owner, cleanup_task, stop_pc>>
    /\ UNCHANGED engine_vars

\* send_chat_action returns: get_history once more, and the engine takes its
\* copy of the list
TypingSent(m) ==
    /\ handlers[m].pc = "typing"
    /\ LET handler == handlers[m] IN
          /\ user_conversations' = get_history(user_conversations, handler.user_id, now)
          /\ last_op' = Op("get_history", handler.user_id,
                           user_conversations[handler.user_id], << >>,
                           user_conversations'[handler.user_id].history, {})
          /\ handlers' = [handlers EXCEPT
                ![m].pc = "engine",
                ![m].engine_input = user_conversations'[handler.user_id].history]
    /\ UNCHANGED <<now, tools_schema, engine_owner, cleanup_task, stop_pc>>
    /\ UNCHANGED engine_vars

\* get_gemini_response_with_tools(chat_history) starts: the copy is taken,
\* the locals are fresh
EngineStarts(history) ==
    /\ pc' = "loop"
    /\ chat_history' = history
    /\ current_chat_history' = history
    /\ iteration' = 0
    /\ response_from_gemini' = NoResponse
    /\ function_call' = NoFunctionCall
    /\ gemini_response_content' = NoneText
    /\ returned' = NoneText
    /\ returns' = 0
    /\ escaped' = FALSE
    /\ last_error' = NoExc
    /\ outcomes' = << >>
    /\ backend_calls' = 0
    /\ tool_invocations' = 0
    /\ tool_result' = NoToolOutcome
    /\ attempt' = 0
    /\ http_requests' = 0
    /\ sleeps' = << >>
    /\ delay' = 0
    /\ attempt_errors' = << >>
    /\ request_tools' = << >>

\* no run of the engine is followed
EngineIdle ==
    /\ pc = "idle"
    /\ chat_history = << >>
    /\ current_chat_history = << >>
    /\ iteration = 0
    /\ response_from_gemini = NoResponse
    /\ function_call = NoFunctionCall
    /\ gemini_response_content = NoneText
    /\ returned = NoneText
    /\ returns = 0
    /\ escaped = FALSE
    /\ last_error = NoExc
    /\ outcomes = << >>
    /\ backend_calls = 0
    /\ tool_invocations = 0
    /\ tool_result = NoToolOutcome
    /\ attempt = 0
    /\ http_requests = 0
    /\ sleeps = << >>
    /\ delay = 0
    /\ attempt_errors = << >>
    /\ request_tools = << >>

\* the run of the engine has returned to its handler: its frame is gone
EngineEnds ==
    /\ pc' = "idle"
    /\ chat_history' = << >>
    /\ current_chat_history' = << >>
    /\ iteration' = 0
    /\ response_from_gemini' = NoResponse
    /\ function_call' = NoFunctionCall
    /\ gemini_response_content' = NoneText
    /\ returned' = NoneText
    /\ returns' = 0
    /\ escaped' = FALSE
    /\ last_error' = NoExc
    /\ outcomes' = << >>
    /\ backend_calls' = 0
    /\ tool_invocations' = 0
    /\ tool_result' = NoToolOutcome
    /\ attempt' = 0
    /\ http_requests' = 0
    /\ sleeps' = << >>
    /\ delay' = 0
    /\ attempt_errors' = << >>
    /\ request_tools' = << >>

\* the run of the engine for message m is followed from here on: the steps
\* of a run touch nothing but its own locals, so the runs of two handlers
\* are followed one after the other
RunEngine(m) ==
    /\ handlers[m].pc = "engine"
    /\ engine_owner = ""
    /\ EngineStarts(handlers[m].engine_input)
    /\ handlers' = [handlers EXCEPT ![m].pc = "running"]
    /\ engine_owner' = m
    /\ UNCHANGED <<tools_schema, cleanup_task, stop_pc>>
    /\ UNCHANGED store_vars

\* mutation: the reply sent is the fixed internal-error text
ReplyOf_Apology(content) == MSG_INTERNAL_ERROR

\* await message.reply(gemini_response_content)
ReplyOf(content) == content

\* mutation: the reply is appended to the copy the engine was given and
\* the copy is written back
PersistReply_FromCopy(conversations, handler, message, current_time) ==
    [conversations EXCEPT
        ![handler.user_id] =
            Conversation(Append(handler.engine_input, message), current_time)]

\* self.conversation_manager.update_history(user_id, {'role': 'model', ...})
PersistReply(conversations, handler, message, current_time) ==
    update_history(conversations, handler.user_id, message, current_time)

\* the engine returns: the reply is stored under role model and sent
EngineReturned(m) ==
    /\ engine_owner = m
    /\ pc = "done"
    /\ LET handler == handlers[m]
           message == TextMessage("model", returned)
       IN IF escaped
          THEN /\ handlers' = [handlers EXCEPT ![m].pc = "failed"]
               /\ UNCHANGED store_vars
          ELSE /\ user_conversations' =
                     PersistReply(user_conversations, handler, message, now)
               /\ last_op' = Op("update_history", handler.user_id,
                                user_conversations[handler.user_id], <<message>>,
                                << >>, {})
               /\ handlers' = [handlers EXCEPT
                     ![m] = [Sending(handler, "reply", ReplyOf(returned)) EXCEPT
                                !.pc = "done",
                                !.gemini_response_content = returned,
                                !.stored = Append(@, message)]]
               /\ UNCHANGED now
    /\ EngineEnds
    /\ engine_owner' = ""
    /\ UNCHANGED <<tools_schema, cleanup_task, stop_pc>>

\* the sleep of the cleanup loop is over and no cancellation is pending:
\* one pass
SweepPass ==
    /\ cleanup_task.state = "sleeping"
    /\ ~cleanup_task.must_cancel
    /\ Cleanup

\* `if self.cleanup_task:` self.cleanup_task.cancel(), up to the await
CancelTask ==
    IF cleanup_task.state = "none"
    THEN /\ stop_pc' = "returned"
         /\ UNCHANGED cleanup_task
    ELSE /\ stop_pc' = "awaiting"
         /\ cleanup_task' =
               [cleanup_task EXCEPT !.must_cancel = (cleanup_task.state = "sleeping")]

\* stop_cleanup_task up to `await self.cleanup_task`
StopCleanupTask ==
    /\ stop_pc = "idle"
    /\ CancelTask
    /\ UNCHANGED <<tools_schema, handlers, engine_owner>>
    /\ UNCHANGED store_vars
    /\ UNCHANGED engine_vars

\* stop_cleanup_task is called again after an earlier call of it has ended
StopCleanupTaskAgain ==
    /\ stop_pc \in {"returned", "raised"}
    /\ CancelTask
    /\ UNCHANGED <<tools_schema, handlers, engine_owner>>
    /\ UNCHANGED store_vars
    /\ UNCHANGED engine_vars

\* the cancellation reaches the task at its await: CancelledError leaves
\* the loop and the task is done
TaskCancelled ==
    /\ cleanup_task.state = "sleeping"
    /\ cleanup_task.must_cancel
    /\ cleanup_task' = [cleanup_task EXCEPT !.state = "cancelled",
                                            !.must_cancel = FALSE,
                                            !.alive = @ - 1]
    /\ UNCHANGED <<tools_schema, handlers, engine_owner, stop_pc>>
    /\ UNCHANGED store_vars
    /\ UNCHANGED engine_vars

\* mutation: the CancelledError of the awaited task is not caught
StopOutcome_Propagates(task_state) == "raised"

\* try: await self.cleanup_task / except asyncio.CancelledError
StopOutcome(task_state) ==
    IF task_state = "cancelled" THEN "returned" ELSE "raised"

\* the awaited task is done: stop_cleanup_task ends
StopReturns ==
    /\ stop_pc = "awaiting"
    /\ cleanup_task.state \in {"cancelled", "failed"}
    /\ stop_pc' = StopOutcome(cleanup_task.state)
    /\ UNCHANGED <<tools_schema, handlers, engine_owner, cleanup_task>>
    /\ UNCHANGED store_vars
    /\ UNCHANGED engine_vars

\* start_cleanup_task is followed until it has created this many tasks
MaxTasks == 2

\* mutation: a task is created at every call
NeedsNewTask_Always(task) == TRUE

\* self.cleanup_task is None or self.cleanup_task.done()
NeedsNewTask(task) == task.state \in {"none", "cancelled", "failed"}

\* self.cleanup_task = asyncio.create_task(self._cleanup_old_conversations_loop()):
\* the task the attribute referred to runs on if it was not done
CreateTask(task) ==
    [Task("sleeping", FALSE) EXCEPT !.alive = task.alive + 1,
                                    !.created = task.created + 1]

\* self.cleanup_task after start_cleanup_task()
start_cleanup_task(task) ==
    IF NeedsNewTask(task) THEN CreateTask(task) ELSE task

\* on_startup, or any caller: await self.conversation_manager.start_cleanup_task()
StartCleanupTask ==
    /\ NeedsNewTask(cleanup_task) => cleanup_task.created < MaxTasks
    /\ cleanup_task' = start_cleanup_task(cleanup_task)
    /\ last_op' = Op("start_cleanup_task", "", NoConversation, << >>, << >>, {})
    /\ UNCHANGED <<user_conversations, now>>
    /\ UNCHANGED <<tools_schema, handlers, engine_owner, stop_pc>>
    /\ UNCHANGED engine_vars

Next ==
    \/ CallBackend
    \/ BudgetExhausted
    \/ \E r \in Responses : HttpSuccess(r)
    \/ \E e \in HttpFailures : HttpFailureRetry(e)
    \/ Wake
    \/ \E e \in HttpFailures : HttpFailureRaise(e)
    \/ \E impl_result \in ToolResults : ExecuteTool(impl_result)

Spec == Init /\ [][Next]_vars

\* every await of the engine returns: the HTTP attempt, the sleep, the tool
FairSpec == Spec /\ WF_vars(Next)

\* the calls of the handlers and of the cleanup loop on the manager, in any
\* order, while the clock advances
StoreNext ==
    \/ \E user_id \in Users : GetHistory(user_id)
    \/ \E user_id \in Users : \E message \in StoredMessages :
            UpdateHistory(user_id, message)
    \/ \E user_id \in Users : ResetHistory(user_id)
    \/ Cleanup
    \/ \E minutes \in ClockSteps : Tick(minutes)

\* the manager before any run of the engine, whose history argument plays
\* no part in the calls on the manager
StoreStart == Init /\ Len(chat_history) = 3

StoreSpec == StoreStart /\ [][StoreNext]_vars

\* what the backend and the tool answer while the handlers are followed
AppResponses ==
    {Response("content", <<Part(NoFunctionCall, <<"You have no events today.">>)>>),
     Response("content",
              <<Part(FunctionCall(TRUE, "list_calendar_events", TRUE, {}), NoneText)>>)}

\* the backend asks for a tool in its first answer of a run at most
AppAnswers(calls) ==
    {r \in AppResponses : calls = 1 \/ r.parts[1].functionCall = NoFunctionCall}

AppFailures == {Exc("ClientResponseError", 400, <<"400, message='Bad Request'">>)}

AppToolResults == {<<"Event successfully handled in the calendar.">>}

\* the turn a user has had with the bot before the messages followed here
EarlierTurn ==
    <<TextMessage("user", <<"what is on today?">>),
      TextMessage("model", <<"You have no events today.">>)>>

\* stores the application is started from: empty, or one user who has
\* talked to the bot once
InitialStores ==
    {[user_id \in Users |-> NoConversation],
     [user_id \in Users |->
        IF user_id = "u1"
        THEN Conversation(_get_initial_history(0) \o EarlierTurn, 0)
        ELSE NoConversation]}

\* the application after on_startup, polling
AppStart ==
    /\ EngineIdle
    /\ user_conversations \in InitialStores
    /\ now = 0
    /\ last_op = Op("init", "", NoConversation, << >>, << >>, {})
    /\ tools_schema = ToolsSchema
    /\ handlers = [m \in Messages |-> NoHandler]
    /\ engine_owner = ""
    /\ cleanup_task = Task("sleeping", FALSE)
    /\ stop_pc = "idle"

\* the handler tasks, the cleanup task and the shutdown, interleaved at
\* their awaits, while the clock advances
AppNext ==
    \/ \E m \in Messages : \E user_id \in Users : \E text \in MessageTexts :
            Dispatch(m, user_id, text)
    \/ \E m \in Messages : NoticeReplied(m)
    \/ \E m \in Messages : TypingSent(m)
    \/ \E m \in Messages : RunEngine(m)
    \/ CallBackend
    \/ \E r \in AppAnswers(backend_calls) : HttpSuccess(r)
    \/ \E e \in AppFailures : HttpFailureRaise(e)
    \/ \E impl_result \in AppToolResults : ExecuteTool(impl_result)
    \/ \E m \in Messages : EngineReturned(m)
    \/ SweepPass
    \/ StopCleanupTask
    \/ TaskCancelled
    \/ StopReturns
    \/ Tick(conversation_lifetime_minutes + 1)

AppSpec == AppStart /\ [][AppNext]_vars

\* the manager as TelegramBotApp.__init__ leaves it, no cleanup task yet
LifecycleStart ==
    /\ EngineIdle
    /\ user_conversations \in InitialStores
    /\ now = 0
    /\ last_op = Op("init", "", NoConversation, << >>, << >>, {})
    /\ AppInit

\* start_cleanup_task and stop_cleanup_task called in any order, any number
\* of times, while the cleanup loop runs, handlers read the store and the
\* clock advances
LifecycleNext ==
    \/ StartCleanupTask
    \/ StopCleanupTask
    \/ StopCleanupTaskAgain
    \/ TaskCancelled
    \/ StopReturns
    \/ SweepPass
    \/ \E user_id \in Users : GetHistory(user_id)
    \/ Tick(conversation_lifetime_minutes + 1)

LifecycleSpec == LifecycleStart /\ [][LifecycleNext]_vars

----------------------------------------------------------------------------
(* Properties of the conversation loop.                                    *)

LastOutcome == IF outcomes = << >> THEN "none" ELSE outcomes[Len(outcomes)]

AllToolCalls(n) == \A i \in 1..n : outcomes[i] = "tool_call"

\* C1: if every backend response of a run is a tool-call request, the engine
\* returns the fixed fallback message after exactly max_tool_call_iterations
\* calls of _call_gemini_api, and never makes more calls than that.
C1_AlwaysToolCallsFallback ==
    /\ backend_calls <= max_tool_call_iterations
    /\ (pc = "done" /\ AllToolCalls(Len(outcomes)))
          => (returned = MSG_FALLBACK /\ backend_calls = max_tool_call_iterations)

\* C2: whatever the backend and the tools answer, a run of the engine ends
\* in a terminal state having returned exactly one string.
C2_Termination == <>[](pc = "done" /\ returns = 1 /\ Truthy(returned) /\ ~escaped)

C2_Witness ==
    pc = "done" /\ returns = 1 /\ tool_invocations >= 1 /\ sleeps # << >>

\* C3: a text reply arriving as the i-th response after i-1 tool-call
\* requests is returned as it is, after exactly i backend calls and i-1 tool
\* invocations, and nothing happens afterwards; the engine returns a
\* non-fixed message only for a text reply.
C3_TextReplyReturned ==
    /\ (pc = "done" /\ LastOutcome = "text" /\ AllToolCalls(Len(outcomes) - 1))
          => /\ returned = response_from_gemini.parts[1].text
             /\ returned \in BackendTexts
             /\ backend_calls = Len(outcomes)
             /\ tool_invocations = Len(outcomes) - 1
             /\ ~ENABLED Next
    /\ (pc = "done" /\ returned \notin FixedMessages)
          => /\ LastOutcome = "text"
             /\ returned = response_from_gemini.parts[1].text

C3_Witness ==
    /\ pc = "done"
    /\ LastOutcome = "text"
    /\ Len(outcomes) = max_tool_call_iterations
    /\ returned = <<"Done, I've added Standup.">>

\* history h is the starting history followed by k complete pairs of a
\* function_call entry (role model) and the function_response of that call
WellPaired(h, k) ==
    LET n == Len(chat_history) IN
    /\ Len(h) = n + 2 * k
    /\ SubSeq(h, 1, n) = chat_history
    /\ \A j \in 1..k :
          /\ h[n + 2 * j - 1].role = "model"
          /\ h[n + 2 * j - 1].part = "function_call"
          /\ h[n + 2 * j].role = "function"
          /\ h[n + 2 * j].part = "function_response"
          /\ h[n + 2 * j].name = h[n + 2 * j - 1].function_call.name

\* C4: whenever a backend call is issued or in flight, the working history
\* is the starting history followed by complete call/result pairs, one per
\* earlier backend call; while a tool runs, its call is the last entry and
\* everything before it is complete pairs.
C4_PairsComplete ==
    /\ pc \in {"api", "sleep"} => WellPaired(current_chat_history, backend_calls - 1)
    /\ pc = "tool" =>
          /\ WellPaired(SubSeq(current_chat_history, 1, Len(current_chat_history) - 1),
                        backend_calls - 1)
          /\ current_chat_history[Len(current_chat_history)] =
                FunctionCallMessage(function_call)

C4_Witness ==
    /\ pc = "api"
    /\ backend_calls = max_tool_call_iterations
    /\ Len(current_chat_history) = Len(chat_history) + 2 * (max_tool_call_iterations - 1)

\* C5: execute_tool never raises to its caller, for every tool name and
\* every keyword mapping; an unknown name gives the 'tool not found' text
\* and a failing implementation a text embedding the exception's description.
C5_ExecuteToolNeverRaises ==
    tool_result.called =>
        /\ ~tool_result.raised
        /\ Truthy(tool_result.value)
        /\ function_call.name \notin AvailableTools
              => tool_result.value = ToolNotFoundText(function_call.name)

\* the requested tool is unknown or its implementation raises
ToolFails(fc) ==
    \/ fc.name \notin AvailableTools
    \/ /\ fc.name \in AvailableTools
       /\ fc.args \cap {"self", "tool_name"} = {}
       /\ BindFails(fc.name, fc.args)

\* C6: when the requested tool fails (unknown name, or the implementation
\* raises) at an iteration before the last, the engine does not terminate:
\* it appends the textual error as function_response and goes on to the
\* next backend call.
C6_ToolFailureContinues ==
    [][(/\ pc = "tool"
        /\ function_call.args_is_mapping
        /\ ToolFails(function_call)
        /\ iteration + 1 < max_tool_call_iterations)
          => /\ pc' = "loop"
             /\ iteration' = iteration + 1
             /\ Len(current_chat_history') = Len(current_chat_history) + 1
             /\ current_chat_history'[Len(current_chat_history')].part = "function_response"
             /\ current_chat_history'[Len(current_chat_history')].content = tool_result'.value
             /\ Truthy(tool_result'.value)]_vars

\* C7: when a backend call raises, the engine stops at that iteration with
\* the fixed internal-error message; no backend call and no tool invocation
\* follows.
C7_BackendErrorStops ==
    LastOutcome = "raised" =>
        /\ pc = "done"
        /\ returned = MSG_INTERNAL_ERROR
        /\ backend_calls = Len(outcomes)
        /\ iteration = Len(outcomes) - 1
        /\ tool_invocations = Len(outcomes) - 1
        /\ ~ENABLED Next

C7_Witness ==
    /\ LastOutcome = "raised"
    /\ Len(outcomes) >= 2
    /\ Len(sleeps) = gemini_max_retries - 1
    /\ returned = MSG_INTERNAL_ERROR

\* the last backend call of the run returned a response (did not raise)
LastCallReturned == outcomes # << >> /\ LastOutcome # "raised"

\* a well-typed mapping whose first part is neither a tool call nor a text
NeitherCallNorText(r) ==
    /\ r.shape \in {"no_candidates", "no_content", "content"}
    /\ \/ r.shape # "content"
       \/ r.parts = << >>
       \/ ~r.parts[1].functionCall.present /\ r.parts[1].text = << >>

\* C8 as stated: a response that is neither a tool-call nor a text reply,
\* an empty response included, ends the run at once with the
\* 'unintelligible response' message.
C8_MalformedUnintelligible ==
    (LastCallReturned /\ (response_from_gemini.shape = "falsy"
                            \/ NeitherCallNorText(response_from_gemini)))
        => (pc = "done" /\ returned = MSG_UNINTELLIGIBLE
              /\ backend_calls = Len(outcomes) /\ ~ENABLED Next)

\* C8 amended: an empty response ends the run at once with the 'could not
\* get a response' message, and a well-typed mapping that is neither a
\* tool-call nor a text reply (an empty text included) with the
\* 'unintelligible response' message; no retry, no further backend call.
C8_MalformedTerminal ==
    /\ (LastCallReturned /\ response_from_gemini.shape = "falsy")
          => (pc = "done" /\ returned = MSG_NO_RESPONSE
                /\ backend_calls = Len(outcomes) /\ ~ENABLED Next)
    /\ (LastCallReturned /\ NeitherCallNorText(response_from_gemini))
          => (pc = "done" /\ returned = MSG_UNINTELLIGIBLE
                /\ backend_calls = Len(outcomes) /\ ~ENABLED Next)

C8_Witness ==
    /\ pc = "done"
    /\ LastCallReturned
    /\ response_from_gemini.shape = "falsy"
    /\ returned = MSG_NO_RESPONSE
    /\ backend_calls >= 2

Fragments(t) == {t[i] : i \in 1..Len(t)}

\* C9: no exception leaves the engine, and on every failure path the
\* returned string is one of the fixed messages and holds no fragment of an
\* exception's description or of a tool's output.
C9_OnlyFixedMessagesOnFailure ==
    /\ ~escaped
    /\ pc = "done" =>
          /\ returns = 1
          /\ LastOutcome # "text" =>
                /\ returned \in FixedMessages
                /\ Fragments(returned) \cap Fragments(last_error.desc) = {}
                /\ Fragments(returned) \cap Fragments(tool_result.value) = {}

C9_Witness ==
    /\ pc = "done"
    /\ tool_result.raised
    /\ last_error.type = "TypeError"
    /\ returned = MSG_INTERNAL_ERROR

\* the error is of a retryable class: HTTP status >= 500 or 429
RetryableError(e) ==
    e.type = "ClientResponseError" /\ (e.status >= 500 \/ e.status = 429)

\* C10 as stated: a call that keeps failing with a retryable error is
\* retried max_retries times, sleeping base_delay * 2^attempt before each
\* retry.
C10_RetriesMaxRetriesTimes ==
    (LastOutcome = "raised" /\ RetryableError(last_error))
        => /\ Len(sleeps) = gemini_max_retries
           /\ \A k \in 1..Len(sleeps) : sleeps[k] = gemini_base_delay * 2^(k - 1)

\* C10 amended: a retryable error is retried while fewer than max_retries
\* attempts have been made, so at most max_retries - 1 times, sleeping
\* base_delay * 2^attempt (attempt counted from 0) before each retry; a
\* retryable error on attempt max_retries - 1 is raised.
C10_RetriesBelowMaxRetries ==
    /\ Len(sleeps) <= gemini_max_retries - 1
    /\ \A k \in 1..Len(sleeps) : sleeps[k] = gemini_base_delay * 2^(k - 1)
    /\ pc = "sleep" => delay = gemini_base_delay * 2^attempt
    /\ pc \in {"api", "sleep"} => (Len(sleeps) = attempt /\ attempt <= gemini_max_retries - 1)
    /\ (LastOutcome = "raised" /\ RetryableError(last_error))
          => (Len(sleeps) = gemini_max_retries - 1 /\ http_requests = gemini_max_retries)

C10_Witness ==
    /\ LastOutcome = "raised"
    /\ RetryableError(last_error)
    /\ sleeps = <<1, 2>>
    /\ http_requests = 3

\* the latest call of _call_gemini_api is over
CallOver == backend_calls > 0 /\ pc \notin {"api", "sleep"}

Is500(e) == e.type = "ClientResponseError" /\ e.status = 500

RECURSIVE SumSeq(_)
SumSeq(seq) == IF seq = << >> THEN 0 ELSE seq[1] + SumSeq(Tail(seq))

\* the sum of base_delay * 2^i for i in 0..k-1
RECURSIVE TotalBackoff(_)
TotalBackoff(k) ==
    IF k = 0 THEN 0 ELSE TotalBackoff(k - 1) + gemini_base_delay * 2^(k - 1)

\* C11: when the backend fails with a 500 error k times, k < max_retries,
\* and then succeeds, _call_gemini_api returns the response of the
\* successful attempt after exactly k + 1 HTTP attempts, and the delays it
\* slept add up to the sum of base_delay * 2^i for i in 0..k-1.  While the
\* call is running after k such failures, k attempts and those k sleeps
\* have been made.
C11_RetriesThenSucceeds ==
    LET k == Len(attempt_errors) IN
    (k < gemini_max_retries /\ \A i \in 1..k : Is500(attempt_errors[i])) =>
        /\ pc = "api" =>
                /\ http_requests = k
                /\ Len(sleeps) = k
                /\ SumSeq(sleeps) = TotalBackoff(k)
        /\ CallOver =>
                /\ LastOutcome # "raised"
                /\ LastOutcome = Classify(response_from_gemini)
                /\ http_requests = k + 1
                /\ Len(sleeps) = k
                /\ SumSeq(sleeps) = TotalBackoff(k)

C11_Witness ==
    /\ CallOver
    /\ Len(attempt_errors) = gemini_max_retries - 1
    /\ \A i \in 1..Len(attempt_errors) : Is500(attempt_errors[i])
    /\ LastOutcome = "text"
    /\ returned = ReplyText(response_from_gemini)
    /\ http_requests = gemini_max_retries
    /\ SumSeq(sleeps) = 3 * gemini_base_delay

\* a failure the retry loop does not retry: an HTTP status below 500 other
\* than 429, or a body that cannot be decoded
NonRetryableError(e) ==
    \/ e.type = "ClientResponseError" /\ e.status < 500 /\ e.status # 429
    \/ e.type = "JSONDecodeError"

\* C12: a non-retryable failure (HTTP 4xx other than 429, or a body-decode
\* failure) ends the call at once: it is the last attempt of the call, no
\* sleep follows it, and it is the error raised to the engine; when the
\* first attempt fails so, the call has made exactly one HTTP attempt and
\* has slept zero times.
C12_NonRetryableFailsAtOnce ==
    LET n == Len(attempt_errors) IN
    \A i \in 1..n :
        NonRetryableError(attempt_errors[i]) =>
            /\ i = n
            /\ http_requests = n
            /\ Len(sleeps) = n - 1
            /\ pc = "done"
            /\ LastOutcome = "raised"
            /\ last_error = attempt_errors[i]
            /\ i = 1 => (http_requests = 1 /\ sleeps = << >>)

C12_Witness ==
    /\ Len(attempt_errors) = 1
    /\ attempt_errors[1].type = "ClientResponseError"
    /\ attempt_errors[1].status = 400
    /\ http_requests = 1
    /\ sleeps = << >>
    /\ last_error = attempt_errors[1]
    /\ returned = MSG_INTERNAL_ERROR

\* a failure the retry loop retries while attempts are left
RetriedError(e) == RetryableError(e) \/ e.type = "ClientError"

IsCall(op, user_id) == last_op'.op = op /\ last_op'.user_id = user_id

\* minutes since the last activity of a stored conversation
IdleTime(user_id) == now - user_conversations[user_id].last_active

\* C14: get_history on a stored session that has been idle for strictly
\* more than conversation_lifetime returns a history of exactly length 2,
\* the fresh system-context message and the acknowledgement, whatever the
\* length before, and the user's entry stays in the store; with an idle
\* time equal to or below conversation_lifetime the length is unchanged.
C14_ExpiredGetsFreshPair ==
    [][\A user_id \in Users :
        (IsCall("get_history", user_id) /\ user_conversations[user_id].present) =>
            /\ user_conversations'[user_id].present
            /\ last_op'.result = user_conversations'[user_id].history
            /\ IF IdleTime(user_id) > conversation_lifetime_minutes
               THEN /\ Len(last_op'.result) = 2
                    /\ last_op'.result =
                          <<_generate_system_prompt(now), SystemPromptResponse>>
               ELSE Len(last_op'.result) = Len(user_conversations[user_id].history)
      ]_vars

C14_Witness ==
    /\ last_op.op = "get_history"
    /\ last_op.before.present
    /\ now - last_op.before.last_active > conversation_lifetime_minutes
    /\ Len(last_op.before.history) = MaxStoredLen
    /\ Len(last_op.result) = 2
    /\ user_conversations[last_op.user_id].present
    /\ user_conversations[last_op.user_id].history = last_op.result

\* C15: get_history on a stored session that is not expired replaces the
\* entry at index 0 by a newly generated system-context message and leaves
\* the length and every entry at index >= 1 as they were; in its three
\* branches (new, expired, live) get_history sets last_active to the
\* current time.
C15_LiveRefreshesPromptOnly ==
    [][\A user_id \in Users :
        IsCall("get_history", user_id) =>
            LET before == user_conversations[user_id]
                after == user_conversations'[user_id]
            IN /\ after.present
               /\ after.last_active = now
               /\ (before.present /\ IdleTime(user_id) <= conversation_lifetime_minutes) =>
                    /\ Len(after.history) = Len(before.history)
                    /\ after.history[1] = _generate_system_prompt(now)
                    /\ \A i \in 2..Len(before.history) :
                            after.history[i] = before.history[i]
      ]_vars

C15_Witness ==
    /\ last_op.op = "get_history"
    /\ last_op.before.present
    /\ now - last_op.before.last_active = conversation_lifetime_minutes
    /\ Len(last_op.before.history) = MaxStoredLen
    /\ Len(last_op.result) = MaxStoredLen
    /\ last_op.result[1] # last_op.before.history[1]
    /\ last_op.result[1] = _generate_system_prompt(now)
    /\ Tail(last_op.result) = Tail(last_op.before.history)
    /\ user_conversations[last_op.user_id].last_active = now

\* a system-context message: the prompt generated at some minute
IsSystemPrompt(message) ==
    /\ message.role = "user"
    /\ \E t \in 0..MaxTime : message = _generate_system_prompt(t)

\* C16: in every reachable state, whatever sequence of get_history,
\* update_history, reset_history and cleanup steps led to it, the history
\* of every user present in the store has at least two entries, entry 0 a
\* system-context message with role user and entry 1 the fixed
\* acknowledgement with role model.
C16_SeedPairFirst ==
    \A user_id \in Users :
        user_conversations[user_id].present =>
            LET history == user_conversations[user_id].history IN
            /\ Len(history) >= 2
            /\ IsSystemPrompt(history[1])
            /\ history[2] = SystemPromptResponse
            /\ history[2].role = "model"

C16_Witness ==
    /\ last_op.op = "update_history"
    /\ ~last_op.before.present
    /\ \E user_id \in Users :
            /\ user_id # last_op.user_id
            /\ user_conversations[user_id].present
            /\ Len(user_conversations[user_id].history) = MaxStoredLen
            /\ user_conversations[user_id].history[1] # _generate_system_prompt(0)
    /\ Len(user_conversations[last_op.user_id].history) = 3

\* C17: while a session stays in the store its last_active never
\* decreases, and each get_history, update_history and reset_history on a
\* user sets that user's last_active to the current time, which is never
\* behind the last_active it replaces.
C17_LastActiveMonotonic ==
    [][\A user_id \in Users :
        LET before == user_conversations[user_id]
            after == user_conversations'[user_id]
        IN /\ (before.present /\ after.present) =>
                    after.last_active >= before.last_active
           /\ (\E op \in {"get_history", "update_history", "reset_history"} :
                    IsCall(op, user_id)) =>
                    (after.present /\ after.last_active = now /\ now' = now)
           /\ after.present => after.last_active <= now'
      ]_vars

C17_Witness ==
    /\ last_op.op = "get_history"
    /\ last_op.before.present
    /\ now - last_op.before.last_active > conversation_lifetime_minutes
    /\ user_conversations[last_op.user_id].last_active = now
    /\ \E user_id \in Users :
            /\ user_conversations[user_id].present
            /\ user_conversations[user_id].last_active < now

\* C18: update_history(user, m) has no failing path: on a stored session
\* the new history is the old one with m appended as its last entry; on an
\* absent session (deleted by the cleanup loop between two calls, say) the
\* session is created with the fresh seed pair followed by m, length 3.
C18_UpdateAppendsOrSeeds ==
    [][\A user_id \in Users :
        IsCall("update_history", user_id) =>
            LET before == user_conversations[user_id]
                after == user_conversations'[user_id]
                m == last_op'.messages[1]
            IN /\ after.present
               /\ IF before.present
                  THEN after.history = Append(before.history, m)
                  ELSE /\ after.history = <<_generate_system_prompt(now),
                                            SystemPromptResponse, m>>
                       /\ Len(after.history) = 3
      ]_vars

C18_Witness ==
    /\ last_op.op = "update_history"
    /\ ~last_op.before.present
    /\ now > conversation_lifetime_minutes
    /\ user_conversations[last_op.user_id].present
    /\ user_conversations[last_op.user_id].history =
            _get_initial_history(now) \o last_op.messages

\* C19: reset_history(user) is unconditional: from an absent, a live or an
\* expired session with a history of any length it leaves the user with
\* the fresh seed pair, length 2, and last_active = now; a second reset
\* right after it yields length 2 again.
C19_ResetUnconditional ==
    [][\A user_id \in Users :
        IsCall("reset_history", user_id) =>
            LET after == user_conversations'[user_id]
                again == reset_history(user_conversations', user_id, now')[user_id]
            IN /\ after.present
               /\ Len(after.history) = 2
               /\ after.history = <<_generate_system_prompt(now), SystemPromptResponse>>
               /\ after.last_active = now
               /\ again.present
               /\ Len(again.history) = 2
      ]_vars

C19_Witness ==
    /\ last_op.op = "reset_history"
    /\ last_op.before.present
    /\ Len(last_op.before.history) = MaxStoredLen
    /\ now - last_op.before.last_active > conversation_lifetime_minutes
    /\ Len(user_conversations[last_op.user_id].history) = 2
    /\ user_conversations[last_op.user_id].last_active = now

\* C20: after one pass of the cleanup loop every session that was idle for
\* strictly more than conversation_lifetime at the pass is absent from the
\* store, and every session idle for conversation_lifetime or less is
\* still present with its history and last_active unchanged.
C20_SweepRemovesExpiredOnly ==
    [][last_op'.op = "cleanup" =>
        \A user_id \in Users :
            IF /\ user_conversations[user_id].present
               /\ IdleTime(user_id) > conversation_lifetime_minutes
            THEN ~user_conversations'[user_id].present
            ELSE user_conversations'[user_id] = user_conversations[user_id]
      ]_vars

C20_Witness ==
    /\ last_op.op = "cleanup"
    /\ \E removed \in Users : \E kept \in Users :
            /\ last_op.removed = {removed}
            /\ ~user_conversations[removed].present
            /\ user_conversations[kept].present
            /\ now - user_conversations[kept].last_active = conversation_lifetime_minutes
            /\ Len(user_conversations[kept].history) = MaxStoredLen

\* C21: whatever the interleaving of the cleanup task with the handlers at
\* their awaits, a pass of the cleanup loop never fails and deletes only
\* sessions that are expired in the state the deletion happens in, so never
\* a session a handler touched after the snapshot was taken.
C21_SweepAtomicAmongHandlers ==
    [][/\ cleanup_task'.state # "failed"
       /\ \A user_id \in Users :
            (user_conversations[user_id].present
                /\ ~user_conversations'[user_id].present)
            => /\ last_op'.op = "cleanup"
               /\ IdleTime(user_id) > conversation_lifetime_minutes
               /\ \A m \in Messages :
                    handlers[m].user_id = user_id => handlers'[m] = handlers[m]
      ]_vars

C21_Witness ==
    /\ last_op.op = "cleanup"
    /\ cleanup_task.state = "sleeping"
    /\ \E m \in Messages : \E other \in Messages :
            /\ handlers[m].pc = "running"
            /\ handlers[m].user_id \in last_op.removed
            /\ ~user_conversations[handlers[m].user_id].present
            /\ handlers[other].pc = "typing"
            /\ handlers[other].user_id \notin last_op.removed
            /\ user_conversations[handlers[other].user_id].present

\* C22: stop_cleanup_task cancels the cleanup task, waits for its end and
\* returns normally, never raising the cancellation; when it has returned
\* the task is done, with no selection pending, and no session is deleted
\* any more; and every pass that ran deleted all the sessions it selected.
C22_StopCancelsAndAwaits ==
    [][/\ stop_pc' # "raised"
       /\ (stop_pc = "idle" /\ stop_pc' # "idle" /\ cleanup_task.state = "sleeping")
            => cleanup_task'.must_cancel
       /\ stop_pc' = "returned"
            => /\ cleanup_task'.state \in {"none", "cancelled"}
               /\ cleanup_task'.users_to_remove = {}
       /\ stop_pc # "idle"
            => \A user_id \in Users :
                    user_conversations[user_id].present
                        => user_conversations'[user_id].present
       /\ (last_op'.op = "cleanup" /\ last_op' # last_op)
            => \A user_id \in last_op'.removed :
                    ~user_conversations'[user_id].present
      ]_vars

C22_Witness ==
    /\ stop_pc = "returned"
    /\ cleanup_task.state = "cancelled"
    /\ \E user_id \in Users :
            /\ user_conversations[user_id].present
            /\ IdleTime(user_id) > conversation_lifetime_minutes
    /\ \E m \in Messages : handlers[m].pc = "running"

\* the messages of a stored history after the seed pair
Turns(conversation) == SubSeq(conversation.history, 3, Len(conversation.history))

\* the messages the handlers stepping here may append: the text of a
\* handler's message under role user, the engine's return value under role
\* model
Appendable ==
    {TextMessage("user", handlers'[m].text) :
        m \in {k \in Messages : handlers'[k] # handlers[k]}}
    \cup {TextMessage("model", returned)}

\* C23: no step of a run of the engine changes the store; every stored
\* history holds text messages only, none of the tool-call or tool-result
\* messages of the loop; and a step that changes a stored history leaves
\* its turns as they were, or drops them, or appends one message that is
\* the handled user message or the final reply.
C23_EngineLeavesStoreAlone ==
    [][/\ (engine_owner # "" /\ engine_owner' = engine_owner
            /\ engine_vars' # engine_vars)
            => user_conversations' = user_conversations
       /\ \A user_id \in Users :
            LET before == user_conversations[user_id]
                after == user_conversations'[user_id]
            IN /\ \A i \in 1..Len(after.history) : after.history[i].part = "text"
               /\ \/ Turns(after) \in {Turns(before), << >>}
                  \/ \E message \in Appendable :
                        Turns(after) \in {Append(Turns(before), message), <<message>>}
      ]_vars

C23_Witness ==
    /\ pc = "done"
    /\ ~escaped
    /\ tool_invocations = 1
    /\ engine_owner \in Messages
    /\ user_conversations[EngineUser].present
    /\ user_conversations[EngineUser].history = chat_history
    /\ Len(current_chat_history) = Len(chat_history) + 2
    /\ current_chat_history[Len(current_chat_history)].part # "text"

\* C24: when the engine has returned to handle_message, the text replied to
\* the user is the text the engine returned, and right after the reply is
\* persisted the last entry of the user's stored history is that text
\* under role model.
C24_ReplyIsEngineReturn ==
    [][\A m \in Messages :
        (handlers[m].pc = "running" /\ handlers'[m].pc = "done")
        => LET handler == handlers'[m]
               stored == user_conversations'[handler.user_id]
           IN /\ handler.sent[Len(handler.sent)] = Outbound("reply", returned)
              /\ handler.gemini_response_content = returned
              /\ stored.present
              /\ stored.history[Len(stored.history)] = TextMessage("model", returned)
      ]_vars

C24_Witness ==
    \E m \in Messages :
        LET handler == handlers[m]
            stored == user_conversations[handler.user_id]
        IN /\ handler.pc = "done"
           /\ handler.handler = "handle_message"
           /\ handler.gemini_response_content = <<"You have no events today.">>
           /\ handler.sent[Len(handler.sent)] =
                    Outbound("reply", <<"You have no events today.">>)
           /\ last_op.op = "update_history"
           /\ last_op.user_id = handler.user_id
           /\ stored.history[Len(stored.history)] =
                    TextMessage("model", <<"You have no events today.">>)
           /\ Len(stored.history) = 3

\* what a handler has sent with message.reply, in order
Replies(handler) ==
    LET IsReply(outbound) == outbound.kind = "reply"
    IN SelectSeq(handler.sent, IsReply)

\* the handler of message m has handled a non-command text to its end
Handled(m) ==
    /\ handlers[m].pc = "done"
    /\ handlers[m].handler = "handle_message"
    /\ Truthy(handlers[m].text)

\* C25 as stated: handling one non-command user message produces exactly
\* one user-visible reply, whatever the prior state of the user's session.
C25_ExactlyOneReply ==
    \A m \in Messages : Handled(m) => Len(Replies(handlers[m])) = 1

\* the history get_history returns for this session has length 2: the
\* session is absent, expired or holds the seed pair only
SeedOnly(conversation, current_time) ==
    \/ ~conversation.present
    \/ IsExpired(conversation, current_time)
    \/ Len(conversation.history) = 2

\* C25, amended: handling one non-command user message whose run of the
\* engine returns produces exactly one reply carrying the engine's text,
\* the last message sent; it is preceded by one reply, the notice of a
\* reset due to inactivity, exactly when the session was absent, expired
\* or seed-only when the message arrived, and by none otherwise.
C25_OneAnswerAfterOptionalNotice ==
    [][\A m \in Messages :
        (/\ handlers'[m] # handlers[m]
         /\ handlers'[m].handler = "handle_message"
         /\ Truthy(handlers'[m].text))
        => LET after == handlers'[m]
               before == handlers[m]
           IN /\ Replies(after) =
                    CASE before.pc = "new" ->
                            IF SeedOnly(user_conversations[after.user_id], now)
                            THEN <<Outbound("reply", MSG_RESET_NOTICE)>>
                            ELSE << >>
                      [] before.pc = "running" /\ after.pc = "done" ->
                            Append(Replies(before), Outbound("reply", returned))
                      [] OTHER -> Replies(before)
              /\ after.pc = "done"
                    => /\ Len(Replies(after)) \in {1, 2}
                       /\ after.sent[Len(after.sent)] =
                            Outbound("reply", after.gemini_response_content)
      ]_vars

C25_Witness ==
    \E m \in Messages : \E other \in Messages :
        /\ Handled(m)
        /\ Handled(other)
        /\ Replies(handlers[m]) =
                <<Outbound("reply", MSG_RESET_NOTICE),
                  Outbound("reply", handlers[m].gemini_response_content)>>
        /\ Replies(handlers[other]) =
                <<Outbound("reply", handlers[other].gemini_response_content)>>

\* the notices of a reset due to inactivity a handler has sent
Notices(handler) ==
    LET IsNotice(outbound) == outbound = Outbound("reply", MSG_RESET_NOTICE)
    IN SelectSeq(handler.sent, IsNotice)

\* this step of the handler of m calls get_history
CallsGetHistory(m) ==
    \/ /\ handlers[m].pc = "new"
       /\ handlers'[m].pc # "new"
       /\ \/ handlers'[m].handler = "send_welcome"
          \/ handlers'[m].handler = "handle_message" /\ Truthy(handlers'[m].text)
    \/ handlers[m].pc = "typing" /\ handlers'[m].pc = "engine"

\* this step of the handler of m resets the session of its user because
\* the session has expired
IdleExpiryReset(m) ==
    /\ CallsGetHistory(m)
    /\ user_conversations[handlers'[m].user_id].present
    /\ IsExpired(user_conversations[handlers'[m].user_id], now)

\* C26 as stated: the notice of a reset due to inactivity is sent exactly
\* once for each idle-expiry reset of a user's session, whatever the
\* interleaving of the user's handlers: a step sends the notice if and only
\* if it is the step that resets the session.
C26_NoticeOncePerReset ==
    [][\A m \in Messages :
        IdleExpiryReset(m)
        <=> Len(Notices(handlers'[m])) = Len(Notices(handlers[m])) + 1
      ]_vars

\* C27 as stated: after /start is handled the session of the user is
\* reinitialized, its history has exactly length 2 whatever it held before,
\* and the onboarding text is sent.
C27_StartReinitializes ==
    [][\A m \in Messages :
        (handlers[m].pc = "new" /\ handlers'[m].handler = "send_welcome")
        => /\ user_conversations'[handlers'[m].user_id].present
           /\ Len(user_conversations'[handlers'[m].user_id].history) = 2
           /\ handlers'[m].sent = <<Outbound("reply", MSG_WELCOME)>>
      ]_vars

\* C28: a message whose text is exactly /start or /reset is handled by its
\* command handler only, which ends at once, appends no user message and
\* never runs the engine (no backend call, no tool invocation); every other
\* non-empty text is handled by handle_message; an empty text changes no
\* session and sends nothing.
C28_RoutingExclusive ==
    [][/\ \A m \in Messages :
            (handlers[m].pc = "new" /\ handlers'[m].pc # "new")
            => LET handler == handlers'[m]
                   before == user_conversations[handler.user_id]
                   after == user_conversations'[handler.user_id]
               IN /\ handler.text = <<"/start">>
                        => /\ handler.handler = "send_welcome"
                           /\ handler.pc = "done"
                           /\ handler.stored = << >>
                           /\ Turns(after) \in {Turns(before), << >>}
                           /\ handler.sent = <<Outbound("reply", MSG_WELCOME)>>
                  /\ handler.text = <<"/reset">>
                        => /\ handler.handler = "reset_conversation"
                           /\ handler.pc = "done"
                           /\ handler.stored = << >>
                           /\ Turns(after) = << >>
                           /\ handler.sent = <<Outbound("reply", MSG_RESET_DONE)>>
                  /\ handler.text \notin {<< >>, <<"/start">>, <<"/reset">>}
                        => /\ handler.handler = "handle_message"
                           /\ handler.pc \in {"notice", "typing"}
                  /\ handler.text = << >>
                        => /\ handler.pc = "done"
                           /\ handler.sent = << >>
                           /\ user_conversations' = user_conversations
                  /\ engine_vars' = engine_vars
       /\ \A m \in Messages :
            handlers[m].pc = "done" => handlers'[m] = handlers[m]
       /\ engine_owner' \in Messages
            => /\ handlers'[engine_owner'].handler = "handle_message"
               /\ handlers'[engine_owner'].text
                    \notin {<< >>, <<"/start">>, <<"/reset">>}
      ]_vars

C28_Witness ==
    \E m \in Messages : \E other \in Messages :
        /\ handlers[m].pc = "done"
        /\ handlers[m].text = <<"/reset">>
        /\ handlers[m].handler = "reset_conversation"
        /\ handlers[m].user_id = "u1"
        /\ Len(user_conversations["u1"].history) = 2
        /\ handlers[other].pc = "done"
        /\ handlers[other].text = << >>
        /\ handlers[other].sent = << >>
        /\ pc = "idle"

\* the typing indicators a handler has sent
TypingActions(handler) ==
    LET IsTyping(outbound) == outbound = Outbound("chat_action", <<"typing">>)
    IN SelectSeq(handler.sent, IsTyping)

\* C29: for every handled user message the typing indicator is sent once,
\* in a step after which the user's message is the last entry of the
\* user's stored history and the engine has not started for the message;
\* and when the first backend call of the message's run is made the
\* indicator has been sent.
C29_TypingBeforeLoop ==
    [][/\ \A m \in Messages :
            TypingActions(handlers'[m]) # TypingActions(handlers[m])
            => LET handler == handlers'[m]
                   stored == user_conversations'[handler.user_id]
               IN /\ Len(TypingActions(handler)) = 1
                  /\ handler.pc = "typing"
                  /\ engine_owner' # m
                  /\ stored.present
                  /\ stored.history[Len(stored.history)] =
                        TextMessage("user", handler.text)
       /\ (engine_owner \in Messages /\ backend_calls = 0 /\ backend_calls' = 1)
            => LET handler == handlers[engine_owner]
               IN /\ Len(TypingActions(handler)) = 1
                  /\ handler.sent[Len(handler.sent)] =
                        Outbound("chat_action", <<"typing">>)
                  /\ handler.stored = <<TextMessage("user", handler.text)>>
      ]_vars

C29_Witness ==
    /\ engine_owner \in Messages
    /\ pc = "api"
    /\ backend_calls = 1
    /\ http_requests = 0
    /\ handlers[engine_owner].sent =
            <<Outbound("reply", MSG_RESET_NOTICE),
              Outbound("chat_action", <<"typing">>)>>
    /\ chat_history[Len(chat_history)] =
            TextMessage("user", handlers[engine_owner].text)

\* the names of the tools the schema declares
DeclaredNames(schema) == {schema[i].name : i \in 1..Len(schema)}

\* C30: the tool schema stays as __init__ built it, every backend request
\* of every run carries it whole and unchanged, and the names it declares
\* are exactly the names execute_tool can dispatch.
C30_SchemaAttachedUnchanged ==
    /\ tools_schema = ToolsSchema
    /\ get_tools_schema(tools_schema) = tools_schema
    /\ backend_calls > 0 => request_tools = tools_schema
    /\ DeclaredNames(tools_schema) = AvailableTools

C30_Witness ==
    /\ pc = "api"
    /\ backend_calls = max_tool_call_iterations
    /\ http_requests = gemini_max_retries - 1
    /\ request_tools = ToolsSchema
    /\ Len(request_tools) = Cardinality(AvailableTools)

\* the registered tool the engine asked for has completed without raising
ToolCompleted ==
    /\ tool_invocations' = tool_invocations + 1
    /\ function_call.name \in AvailableTools
    /\ function_call.args \cap OwnParams = {}
    /\ ~BindFails(function_call.name, function_call.args)

\* C31: when a registered tool completes without raising, execute_tool
\* returns the text the tool produced, whole; only the log line carries its
\* first LOG_RESULT_CHARS characters; and the message the engine appends
\* as tool result holds that same whole text.
C31_ToolResultVerbatim ==
    [][ToolCompleted
        => /\ ~tool_result'.raised
           /\ tool_result'.value \in ToolResults
           /\ tool_result'.logged = Slice(tool_result'.value, LOG_RESULT_CHARS)
           /\ CharLen(tool_result'.logged) <= LOG_RESULT_CHARS
           /\ current_chat_history' =
                Append(current_chat_history,
                       FunctionResponseMessage(function_call.name, tool_result'.value))
      ]_vars

C31_Witness ==
    /\ pc = "loop"
    /\ tool_result.called
    /\ ~tool_result.raised
    /\ function_call.name \in AvailableTools
    /\ CharLen(tool_result.value) > LOG_RESULT_CHARS
    /\ CharLen(tool_result.logged) = LOG_RESULT_CHARS
    /\ tool_result.logged # tool_result.value
    /\ current_chat_history[Len(current_chat_history)].content = tool_result.value

\* C32 as stated: whatever the interleaving of handlers, /reset commands
\* and cleanup passes of one user, every model text reply stored after the
\* seed pair is immediately preceded in the stored history by a user
\* message, the one it answers.
C32_ReplyFollowsItsMessage ==
    \A user_id \in Users :
        LET history == user_conversations[user_id].history
        IN \A i \in 3..Len(history) :
                history[i].role = "model"
                => /\ i > 3
                   /\ history[i - 1].role = "user"
                   /\ history[i - 1].part = "text"

\* how often a message occurs in a sequence of messages
Count(messages, message) ==
    Cardinality({i \in DOMAIN messages : messages[i] = message})

\* the session of the user still begins with the turn it held at the
\* start: it has been neither reset nor swept since
KeepsEarlierTurn(user_id) ==
    /\ user_conversations[user_id].present
    /\ Len(user_conversations[user_id].history) >= 2 + Len(EarlierTurn)
    /\ SubSeq(user_conversations[user_id].history, 3, 2 + Len(EarlierTurn))
            = EarlierTurn

\* C33: when two messages of one user have been handled concurrently and
\* the session was neither reset nor swept meanwhile, the stored history
\* holds, after what it held before, the two user messages and the two
\* replies, each as often as it was stored, and nothing else: it has grown
\* by exactly four entries.
C33_NoLostUpdate ==
    \A user_id \in Users :
        (/\ \A m \in Messages : Handled(m) /\ handlers[m].user_id = user_id
         /\ KeepsEarlierTurn(user_id))
        => LET history == user_conversations[user_id].history
               added == SubSeq(history, 3 + Len(EarlierTurn), Len(history))
               expected == handlers["m1"].stored \o handlers["m2"].stored
           IN /\ Len(history) = 2 + Len(EarlierTurn) + Len(expected)
              /\ Len(added) = 4
              /\ \A i \in DOMAIN expected :
                    Count(added, expected[i]) = Count(expected, expected[i])

C33_Witness ==
    /\ \A m \in Messages : Handled(m) /\ handlers[m].user_id = "u1"
    /\ KeepsEarlierTurn("u1")
    /\ LET history == user_conversations["u1"].history
       IN /\ history[Len(history)].role = "model"
          /\ history[Len(history) - 1].role = "model"
          /\ history[Len(history) - 2].role = "user"
          /\ history[Len(history) - 3].role = "user"
          /\ history[Len(history)] # history[Len(history) - 1]

\* C34: an operation on one user leaves the session of every other user
\* as it is: a session changes only in a step of a handler of its own user
\* (get_history, update_history, reset_history for that user) or in a
\* cleanup pass, and a pass removes a session if and only if that session's
\* own last_active is older than the lifetime, leaving it untouched else.
C34_OtherUsersUntouched ==
    [][\A user_id \in Users :
        LET before == user_conversations[user_id]
            after == user_conversations'[user_id]
        IN /\ after # before
                => \/ \E m \in Messages :
                        /\ handlers'[m] # handlers[m]
                        /\ handlers'[m].user_id = user_id
                   \/ /\ last_op'.op = "cleanup"
                      /\ before.present
                      /\ ~after.present
           /\ (before.present /\ ~after.present)
                => now - before.last_active > conversation_lifetime_minutes
           /\ (last_op'.op = "cleanup" /\ last_op' # last_op /\ before.present
                    /\ now - before.last_active > conversation_lifetime_minutes)
                => ~after.present
      ]_vars

C34_Witness ==
    /\ now > conversation_lifetime_minutes
    /\ last_op.op = "update_history"
    /\ last_op.user_id = "u2"
    /\ user_conversations["u2"].present
    /\ user_conversations["u2"].last_active = now
    /\ user_conversations["u1"] =
            Conversation(_get_initial_history(0) \o EarlierTurn, 0)

\* C35: one call of _call_gemini_api issues at most gemini_max_retries
\* HTTP requests, the first attempt included, and sleeps at most
\* gemini_max_retries - 1 times; a run makes at most
\* max_tool_call_iterations calls, so the requests of the calls before the
\* current one and of the current one together never exceed
\* max_tool_call_iterations * gemini_max_retries.
C35_HttpRequestsBounded ==
    /\ http_requests <= gemini_max_retries
    /\ Len(sleeps) <= gemini_max_retries - 1
    /\ Len(sleeps) <= http_requests
    /\ Len(attempt_errors) <= http_requests
    /\ backend_calls <= max_tool_call_iterations
    /\ backend_calls > 0
        => (backend_calls - 1) * gemini_max_retries + http_requests
                <= max_tool_call_iterations * gemini_max_retries

C35_Witness ==
    /\ backend_calls = max_tool_call_iterations
    /\ http_requests = gemini_max_retries
    /\ Len(sleeps) = gemini_max_retries - 1
    /\ tool_invocations = max_tool_call_iterations - 1
    /\ Len(outcomes) = max_tool_call_iterations

\* the tools that have run to completion in this run: the calls of
\* execute_tool less the one that raised at its call
ToolsExecuted == tool_invocations - (IF tool_result.raised THEN 1 ELSE 0)

\* C36: between the steps of a run as many tools have been executed as
\* responses were classified as tool calls, never more than
\* max_tool_call_iterations; a run ended by budget exhaustion has executed
\* exactly max_tool_call_iterations tools, and the last result is the last
\* entry of the working history, which no backend call has carried.
C36_OneToolPerToolCall ==
    /\ ToolsExecuted <= max_tool_call_iterations
    /\ pc # "tool" => ToolsExecuted = Count(outcomes, "tool_call")
    /\ (pc = "done" /\ returned = MSG_FALLBACK) =>
          /\ ToolsExecuted = max_tool_call_iterations
          /\ backend_calls = max_tool_call_iterations
          /\ current_chat_history[Len(current_chat_history)]
                = FunctionResponseMessage(function_call.name, tool_result.value)
          /\ Len(current_chat_history) = Len(chat_history) + 2 * backend_calls

\* C37: handle_message sends the notice of a reset due to inactivity if and
\* only if the history its first get_history returns has length exactly 2:
\* so also on a user's first contact and for the first message after /reset
\* or after a sweep deleted the session (no session, or the seed pair only),
\* and never when the history it gets is longer; no later step of the
\* handler sends a notice.
C37_NoticeIffSeedPair ==
    [][\A m \in Messages :
        LET after == handlers'[m]
            before == handlers[m]
        IN /\ (/\ before.pc = "new"
               /\ after.handler = "handle_message"
               /\ Truthy(after.text))
              => LET conversation == user_conversations[after.user_id]
                     first_history ==
                        get_history(user_conversations, after.user_id,
                                    now)[after.user_id].history
                 IN /\ Len(Notices(after)) = 1 <=> Len(first_history) = 2
                    /\ Len(Notices(after)) = 0 <=> Len(first_history) > 2
                    /\ ~conversation.present => Len(Notices(after)) = 1
                    /\ (conversation.present /\ Len(conversation.history) = 2)
                          => Len(Notices(after)) = 1
                    /\ (/\ conversation.present
                        /\ ~IsExpired(conversation, now)
                        /\ Len(conversation.history) > 2)
                          => Len(Notices(after)) = 0
           /\ before.pc # "new" => Notices(after) = Notices(before)
      ]_vars

C37_Witness ==
    \E m \in Messages : \E other \in Messages :
        /\ handlers[other].handler = "reset_conversation"
        /\ handlers[other].user_id = handlers[m].user_id
        /\ handlers[m].handler = "handle_message"
        /\ handlers[m].pc = "notice"
        /\ Len(Notices(handlers[m])) = 1
        /\ last_op.op = "get_history"
        /\ last_op.before.present
        /\ ~IsExpired(last_op.before, now)
        /\ last_op.before.history = _get_initial_history(now)
        /\ last_op.result = last_op.before.history

\* this step re-seeds the session of the user: reset_history, get_history
\* on an expired session, or a pass of the cleanup loop that deletes it
ReSeeds(user_id) ==
    \/ IsCall("reset_history", user_id)
    \/ /\ IsCall("get_history", user_id)
       /\ user_conversations[user_id].present
       /\ IsExpired(user_conversations[user_id], now)
    \/ last_op'.op = "cleanup" /\ user_id \in last_op'.removed

\* C38: a step that does not re-seed the session of a user leaves it in the
\* store, never shortens its history and leaves every entry at index >= 1
\* where it was and as it was; only entries appended at the end are new.
C38_AppendOnlyBetweenReseeds ==
    [][\A user_id \in Users :
        LET before == user_conversations[user_id]
            after == user_conversations'[user_id]
        IN (before.present /\ ~ReSeeds(user_id)) =>
                /\ after.present
                /\ Len(after.history) >= Len(before.history)
                /\ \A i \in 2..Len(before.history) :
                        after.history[i] = before.history[i]
      ]_vars

C38_Witness ==
    /\ last_op.op = "update_history"
    /\ last_op.before.present
    /\ Len(last_op.before.history) = MaxStoredLen - 1
    /\ last_op.before.history[1] # _generate_system_prompt(0)
    /\ LET history == user_conversations[last_op.user_id].history
       IN /\ Len(history) = MaxStoredLen
          /\ history[MaxStoredLen] = last_op.messages[1]
          /\ history[MaxStoredLen - 1] # history[MaxStoredLen]
          /\ SubSeq(history, 1, MaxStoredLen - 1) = last_op.before.history

\* the step hands a well-typed, non-empty response of the backend to the
\* engine
Examines(r) ==
    /\ Len(outcomes') = Len(outcomes) + 1
    /\ outcomes'[Len(outcomes')] # "raised"
    /\ response_from_gemini' = r
    /\ r.shape \in {"no_candidates", "no_content", "content"}

\* the first part of the first candidate of r, or a part that carries
\* nothing when there is none
FirstPart(r) ==
    IF r.shape = "content" /\ r.parts # << >>
    THEN r.parts[1]
    ELSE Part(NoFunctionCall, NoneText)

\* C39: the engine classifies a response by the first part of its first
\* candidate only, tool call before text: a first part with a tool call,
\* with or without a text, is taken as that tool call; a first part with a
\* text and no tool call ends the run with that text; every other response,
\* whatever its later parts and later candidates carry, ends the run with
\* the 'unintelligible response' message.
C39_FirstPartDecides ==
    [][\A r \in Responses :
        Examines(r) =>
            LET first == FirstPart(r) IN
            IF first.functionCall.present
            THEN /\ function_call' = first.functionCall
                 /\ returned' \notin BackendTexts \cup {MSG_UNINTELLIGIBLE}
                 /\ \/ /\ pc' = "tool"
                       /\ current_chat_history' =
                            Append(current_chat_history,
                                   FunctionCallMessage(first.functionCall))
                    \/ /\ pc' = "done"
                       /\ ~first.functionCall.has_name
                       /\ returned' = MSG_INTERNAL_ERROR
            ELSE /\ pc' = "done"
                 /\ current_chat_history' = current_chat_history
                 /\ returned' = IF first.text # NoneText
                                THEN first.text
                                ELSE MSG_UNINTELLIGIBLE
      ]_vars

C39_Witness ==
    /\ pc = "tool"
    /\ response_from_gemini.shape = "content"
    /\ response_from_gemini.parts[1].functionCall.present
    /\ response_from_gemini.parts[1].text \in BackendTexts
    /\ function_call = response_from_gemini.parts[1].functionCall
    /\ backend_calls >= 2

\* this step is a call of start_cleanup_task
StartCalled == last_op'.op = "start_cleanup_task" /\ last_op' # last_op

\* C40: at most one task of the cleanup loop is alive at any time, and it
\* is the one self.cleanup_task refers to; start_cleanup_task creates a task
\* exactly when there is none or the previous one is done and leaves a
\* running task alone, so repeated starts never make a second loop;
\* stop_cleanup_task ends with no task alive, so the start that follows it
\* creates a new running task.
C40_OneSweepTask ==
    [][/\ cleanup_task'.alive <= 1
       /\ cleanup_task'.alive = 1 <=> cleanup_task'.state = "sleeping"
       /\ cleanup_task'.created > cleanup_task.created
            => /\ cleanup_task.state \in {"none", "cancelled", "failed"}
               /\ cleanup_task.alive = 0
       /\ StartCalled =>
            /\ cleanup_task'.state = "sleeping"
            /\ cleanup_task.state = "sleeping" => cleanup_task' = cleanup_task
            /\ cleanup_task.state # "sleeping" =>
                    /\ cleanup_task'.created = cleanup_task.created + 1
                    /\ cleanup_task'.alive = 1
                    /\ ~cleanup_task'.must_cancel
       /\ (stop_pc' # stop_pc /\ stop_pc' \in {"returned", "raised"})
            => /\ cleanup_task'.alive = 0
               /\ cleanup_task'.state \in {"none", "cancelled", "failed"}
      ]_vars

C40_Witness ==
    /\ last_op.op = "start_cleanup_task"
    /\ stop_pc = "returned"
    /\ cleanup_task.state = "sleeping"
    /\ ~cleanup_task.must_cancel
    /\ cleanup_task.alive = 1
    /\ cleanup_task.created = MaxTasks

====
